---- MODULE Spec2Model ----
(***************************************************************************)
(* Model of the Auto-Switch configuration generator:                       *)
(*   - InterfaceAssignmentManager (interface -> template bookkeeping),     *)
(*   - the VLAN range compaction helpers,                                   *)
(*   - AccessTemplate.generate_config and TrunkTemplate.generate_config.    *)
(*                                                                          *)
(* Python values are represented as follows.                                *)
(*   dict            a sequence of <<key, value>> pairs in insertion order  *)
(*   Optional[T]     <<>> for None, <<v>> for a value v                     *)
(*   CLI line        a string, the text of the line with its indent         *)
(*   enum / str      a record [kind |-> "enum" or "str", value |-> text]   *)
(***************************************************************************)
EXTENDS Integers, Sequences, FiniteSets, TLC

VARIABLES
    interfaces,        \* list handed to InterfaceAssignmentManager.__init__
    default_template,  \* default template name handed to __init__
    interface_map,     \* InterfaceAssignmentManager.interface_map
    assigns,           \* log of the assign calls made so far, with results
    iam_last,          \* the manager call made last, with its result
    tmpl_class,        \* class of the template instance under consideration
    tmpl,              \* the instance: a record of its dataclass fields
    tmpl_edits,        \* number of attribute assignments made to it
    tmpl_renders,      \* generate_config calls since the last assignment
    tmpl_out,          \* what the last of these calls returned or raised
    vlan_list,         \* a list of VLAN IDs handed to the range helpers
    trunk_range,       \* result of TrunkTemplate._format_vlan_range on it
    switch_ranges,     \* result of SwitchTemplate._vlan_list_to_ranges on it
    nested_templates,  \* the nested templates of the last chassis generate_config
    current_form_class, \* class of the form on screen
    current_form,      \* its widgets, by attribute name, with what they show
    form_edits,        \* number of widget changes made by the user
    build,             \* what the last builder call on the form returned
    built_by,          \* the builder called last on the form as it is
    custom_templates,  \* ConfigMainArea.custom_templates: radio value -> instance
    current_template_type, \* ConfigMainArea.current_template_type
    applied,           \* what the last Apply built, passed on and generated
    page_last,         \* the page handler that ran last and how it ended
    page_ops,          \* number of page handlers run so far
    switch_layer,      \* "L2" or "L3": the switch_layer of the page's device
    page_arg,          \* the radio value or interface the last handler was given,
                       \* for Accept the text of the creator's Interfaces field
    name_instance,     \* the instance handed to generate_template_name
    name_keys,         \* the existing_keys handed to generate_template_name
    template_name,     \* None, or Some(the name generate_template_name returned)
    device_type,       \* StartPage.device_type: the radio checked on the start page
    selected_model,    \* StartPage.selected_model: None or Some(a catalogue entry)
    selected_device,   \* MainWindow.selected_device: None or Some(device_info)
    previous_device_type, \* MainWindow.previous_device_type
    pages,             \* MainWindow._pages: page class -> None or Some(instance)
    central_widget,    \* class of the page that is the central widget
    nav_last           \* the start-page or navigation handler that ran last

iam_vars == <<interfaces, default_template, interface_map, assigns, iam_last>>

tmpl_vars == <<tmpl_class, tmpl, tmpl_edits, tmpl_renders, tmpl_out>>

range_vars == <<vlan_list, trunk_range, switch_ranges>>

chassis_vars == <<nested_templates>>

form_vars == <<current_form_class, current_form, form_edits, build, built_by>>

page_vars == <<custom_templates, current_template_type, applied, page_last, page_ops,
               page_arg, switch_layer>>

name_vars == <<name_instance, name_keys, template_name>>

nav_vars == <<device_type, selected_model, selected_device, previous_device_type,
              pages, central_widget, nav_last>>

vars == <<iam_vars, tmpl_vars, range_vars, chassis_vars, form_vars, page_vars, name_vars, nav_vars>>

\* what the operations of one component leave alone
iam_others == <<tmpl_vars, range_vars, chassis_vars, form_vars, page_vars, name_vars, nav_vars>>
tmpl_others == <<iam_vars, range_vars, chassis_vars, form_vars, page_vars, name_vars, nav_vars>>
range_others == <<iam_vars, tmpl_vars, chassis_vars, form_vars, page_vars, name_vars, nav_vars>>
switch_others == <<iam_vars, range_vars, form_vars, page_vars, name_vars, nav_vars>>
form_others == <<iam_vars, tmpl_vars, range_vars, chassis_vars, page_vars, name_vars, nav_vars>>
builder_others == <<iam_vars, range_vars, chassis_vars, page_vars, name_vars, nav_vars>>
page_fixed == <<interfaces, default_template, assigns, iam_last, build, built_by>>
page_others == <<page_fixed, tmpl_vars, range_vars, chassis_vars, name_vars, nav_vars>>

(***************************************************************************)
(* Bounds                                                                   *)
(***************************************************************************)
MaxIfaces == 2      \* length of the interface list given at construction
MaxCalls  == 2      \* number of assign calls in one behaviour
MaxEdits  == 1      \* attribute assignments made to a template instance
MaxRenders == 2     \* repeated generate_config calls on one instance state
MaxVlanId == 3      \* VLAN IDs 1..MaxVlanId, besides a few larger ones
MaxVlanListLen == 4 \* length of a VLAN ID list
MaxFormEdits == 1   \* widget changes the user makes to a form
MaxPageOps == 4     \* handlers run on the configuration page
MaxPageEdits == 2   \* widget changes the user makes on the configuration page
MaxSuffix == 3      \* largest numbered suffix among the names already taken
MaxACLEntries == 3  \* length of the acl_entries list of an L3 switch

IfaceNames    == {"Gi0/1", "Gi0/2", "Gi0/9"}
TemplateNames == {"vlan", "TRUNK_A"}
DefaultNames  == {"vlan", "device"}

RECURSIVE SeqsUpTo(_, _)
SeqsUpTo(S, n) ==
    IF n = 0 THEN {<<>>}
    ELSE LET shorter == SeqsUpTo(S, n - 1)
         IN  shorter \cup {Append(s, x) : s \in shorter, x \in S}

(***************************************************************************)
(* Python dict: insertion-ordered sequence of <<key, value>> pairs          *)
(***************************************************************************)
DictKeys(d) == {d[k][1] : k \in DOMAIN d}

DictHas(d, key) == \E k \in DOMAIN d : d[k][1] = key

DictGet(d, key, dflt) ==
    IF DictHas(d, key)
    THEN d[CHOOSE k \in DOMAIN d : d[k][1] = key][2]
    ELSE dflt

\* d[key] = val : an existing key keeps its position, a new key goes last
DictSet(d, key, val) ==
    IF DictHas(d, key)
    THEN [k \in DOMAIN d |-> IF d[k][1] = key THEN <<key, val>> ELSE d[k]]
    ELSE Append(d, <<key, val>>)

\* list(d.items()) restricted by a predicate on the value, in dict order
RECURSIVE KeysWithValue(_, _)
KeysWithValue(d, val) ==
    IF d = <<>> THEN <<>>
    ELSE IF d[1][2] = val
         THEN <<d[1][1]>> \o KeysWithValue(Tail(d), val)
         ELSE KeysWithValue(Tail(d), val)

(***************************************************************************)
(* InterfaceAssignmentManager                                               *)
(***************************************************************************)
\* variant of __init__ that keeps one entry per list element
IAM_init_list(ifaces, dflt) == [k \in DOMAIN ifaces |-> <<ifaces[k], dflt>>]

\* __init__: {iface: default_template for iface in interfaces}
RECURSIVE IAM_init(_, _)
IAM_init(ifaces, dflt) ==
    IF ifaces = <<>> THEN <<>>
    ELSE DictSet(IAM_init(SubSeq(ifaces, 1, Len(ifaces) - 1), dflt),
                 ifaces[Len(ifaces)], dflt)

\* variant of assign that reports success without storing the binding
assign_no_store(m, interface, template) ==
    IF ~DictHas(m, interface)
    THEN [map |-> m, ret |-> FALSE]
    ELSE [map |-> m, ret |-> TRUE]

\* variant of assign without the membership test
assign_unchecked(m, interface, template) ==
    [map |-> DictSet(m, interface, template), ret |-> TRUE]

\* variant of assign that deletes the key and inserts it again
assign_reinsert(m, interface, template) ==
    IF ~DictHas(m, interface)
    THEN [map |-> m, ret |-> FALSE]
    ELSE [map |-> Append(SelectSeq(m, LAMBDA e : e[1] # interface),
                         <<interface, template>>),
          ret |-> TRUE]

\* assign(interface, template) -> bool, with the map it leaves behind
assign(m, interface, template) ==
    IF ~DictHas(m, interface)
    THEN [map |-> m, ret |-> FALSE]
    ELSE [map |-> DictSet(m, interface, template), ret |-> TRUE]

\* variant of get_template without the "" default of dict.get
get_template_none(m, interface) == DictGet(m, interface, "None")

\* get_template(interface) -> str
get_template(m, interface) == DictGet(m, interface, "")

\* get_interfaces_for_template(template) -> list[str]
get_interfaces_for_template(m, template) == KeysWithValue(m, template)

NoCall == [op |-> "none"]

IAMInit ==
    /\ interfaces \in SeqsUpTo(IfaceNames, MaxIfaces)
    /\ default_template \in DefaultNames
    /\ interface_map = IAM_init(interfaces, default_template)
    /\ assigns = <<>>
    /\ iam_last = NoCall

Assign ==
    /\ Len(assigns) < MaxCalls
    /\ \E i \in IfaceNames, t \in TemplateNames :
          LET r == assign(interface_map, i, t)
          IN  /\ interface_map' = r.map
              /\ assigns' = Append(assigns,
                                [interface |-> i, template |-> t, ret |-> r.ret])
              /\ iam_last' = [op |-> "assign", interface |-> i,
                              template |-> t, ret |-> r.ret]
    /\ UNCHANGED <<interfaces, default_template>>
    /\ UNCHANGED iam_others

GetTemplate ==
    /\ \E i \in IfaceNames :
          iam_last' = [op |-> "get_template", interface |-> i,
                       ret |-> get_template(interface_map, i)]
    /\ UNCHANGED <<interfaces, default_template, interface_map, assigns>>
    /\ UNCHANGED iam_others

GetInterfacesForTemplate ==
    /\ \E t \in TemplateNames \cup DefaultNames :
          iam_last' = [op |-> "get_interfaces_for_template", template |-> t,
                       ret |-> get_interfaces_for_template(interface_map, t)]
    /\ UNCHANGED <<interfaces, default_template, interface_map, assigns>>
    /\ UNCHANGED iam_others

IAMNext == Assign \/ GetTemplate \/ GetInterfacesForTemplate

(***************************************************************************)
(* Properties of InterfaceAssignmentManager                                 *)
(***************************************************************************)
Range(s) == {s[k] : k \in DOMAIN s}

Supplied == Range(interfaces)

\* the step is a call of assign
AssignStep == Len(assigns') = Len(assigns) + 1

C2_AssignUnknown ==
    [][ (AssignStep /\ iam_last'.interface \notin Supplied) =>
          /\ iam_last'.ret = FALSE
          /\ interface_map' = interface_map
          /\ ~DictHas(interface_map', iam_last'.interface)
      ]_vars

\* the last call was an assign of an unknown interface, on a manager that
\* knows some interface
C2_Witness ==
    /\ iam_last.op = "assign"
    /\ iam_last.interface \notin Supplied
    /\ Supplied # {}
    /\ iam_last.ret = FALSE

\* C3: after any sequence of assign calls the domain of the mapping is the
\* set of interfaces supplied at construction, each with exactly one binding.
C3_DomainFixed ==
    /\ DictKeys(interface_map) = Supplied
    /\ \A k, l \in DOMAIN interface_map :
          interface_map[k][1] = interface_map[l][1] => k = l
    /\ Len(interface_map) = Cardinality(Supplied)

\* calls on known and on unknown interfaces were made, on a manager built
\* from a list that names an interface twice
C3_Witness ==
    /\ \E k \in DOMAIN assigns : assigns[k].ret
    /\ \E k \in DOMAIN assigns : ~assigns[k].ret
    /\ Len(interfaces) > Cardinality(Supplied)

\* template of the most recent assign to i that returned true, if any
LastAssigned(i) ==
    LET hits == {k \in DOMAIN assigns : assigns[k].interface = i /\ assigns[k].ret}
    IN  IF hits = {} THEN <<>>
        ELSE <<assigns[CHOOSE k \in hits : \A l \in hits : l <= k].template>>

ExpectedTemplate(i) ==
    IF i \notin Supplied THEN ""
    ELSE IF LastAssigned(i) = <<>> THEN default_template
    ELSE LastAssigned(i)[1]

\* C4: get_template(i) returns the template of the most recent successful
\* assign to i, the construction-time default when i was never reassigned,
\* and the empty string when i was not supplied at construction.
C4_GetTemplate ==
    /\ iam_last.op = "get_template" =>
          iam_last.ret = ExpectedTemplate(iam_last.interface)
    /\ \A i \in IfaceNames :
          get_template(interface_map, i) = ExpectedTemplate(i)

\* get_template was called on an interface that was reassigned twice, to
\* two different templates
C4_Witness ==
    /\ iam_last.op = "get_template"
    /\ iam_last.interface \in Supplied
    /\ \E k, l \in DOMAIN assigns :
          /\ k < l
          /\ assigns[k].interface = iam_last.interface
          /\ assigns[l].interface = iam_last.interface
          /\ assigns[k].template # assigns[l].template
          /\ assigns[l].template # default_template

\* the construction list without its repeated names, first occurrences kept
RECURSIVE FirstOccurrences(_)
FirstOccurrences(s) ==
    IF s = <<>> THEN <<>>
    ELSE LET init == SubSeq(s, 1, Len(s) - 1)
         IN  IF s[Len(s)] \in Range(init)
             THEN FirstOccurrences(init)
             ELSE Append(FirstOccurrences(init), s[Len(s)])

RECURSIVE BoundTo(_, _)
BoundTo(s, t) ==
    IF s = <<>> THEN <<>>
    ELSE IF ExpectedTemplate(s[1]) = t
         THEN <<s[1]>> \o BoundTo(Tail(s), t)
         ELSE BoundTo(Tail(s), t)

\* C5: get_interfaces_for_template(t) returns exactly the interfaces bound
\* to t, each once, in the order of the construction list; after
\* InterfaceAssignmentManager(["Gi0/1","Gi0/2"], "vlan").assign("Gi0/1","TRUNK_A")
\* the call for "vlan" returns ["Gi0/2"].
C5_InterfacesForTemplate ==
    /\ iam_last.op = "get_interfaces_for_template" =>
          iam_last.ret = BoundTo(FirstOccurrences(interfaces), iam_last.template)
    /\ ( /\ interfaces = <<"Gi0/1", "Gi0/2">>
         /\ default_template = "vlan"
         /\ assigns = <<[interface |-> "Gi0/1", template |-> "TRUNK_A", ret |-> TRUE]>>
         /\ iam_last.op = "get_interfaces_for_template"
         /\ iam_last.template = "vlan" )
       => iam_last.ret = <<"Gi0/2">>

\* the first interface of a two-interface manager was moved away and back,
\* and the query returns both interfaces
C5_Witness ==
    /\ iam_last.op = "get_interfaces_for_template"
    /\ Len(iam_last.ret) = 2
    /\ Len(assigns) >= 2
    /\ assigns[1].interface = interfaces[1]
    /\ assigns[1].ret
    /\ assigns[1].template # default_template
    /\ assigns[Len(assigns)].interface = interfaces[1]
    /\ assigns[Len(assigns)].template = default_template

(***************************************************************************)
(* Python values used by the template classes                               *)
(***************************************************************************)
None == <<>>
Some(v) == <<v>>

\* a member of a str-mixin Enum class, and a plain str in the same place
EnumMember(text) == [kind |-> "enum", value |-> text]
PlainStr(text)   == [kind |-> "str", value |-> text]

\* bool(x) for Optional[int], Optional[str] and Optional[str-Enum]
TruthyInt(o) == o # None /\ o[1] # 0
TruthyStr(o) == o # None /\ o[1] # ""
TruthyEnum(o) == o # None /\ o[1].value # ""

\* x.value : only Enum members have the attribute
HasValueAttr(e) == e.kind = "enum"

\* str(n) for an int
Str(n) == ToString(n)

\* str(x) for a non-negative float held in tenths: 105 is 10.5, 100 is 10.0
FloatStr(x) == ToString(x \div 10) \o "." \o ToString(x % 10)

\* sep.join(items)
RECURSIVE Join(_, _)
Join(sep, items) ==
    IF items = <<>> THEN ""
    ELSE IF Len(items) = 1 THEN items[1]
    ELSE items[1] \o sep \o Join(sep, Tail(items))

\* [prefix + x for x in items]
Prefixed(prefix, items) == [k \in DOMAIN items |-> prefix \o items[k]]

\* one line when the condition holds, none otherwise
LineIf(cond, line) == IF cond THEN <<line>> ELSE <<>>

(***************************************************************************)
(* AccessTemplate                                                           *)
(***************************************************************************)
\* AccessTemplate(): every field at its dataclass default
AccessDefaults ==
    [ interfaces |-> <<>>,
      vlan_id |-> 1,
      description |-> None,
      color |-> None,
      speed |-> "auto",
      duplex |-> "auto",
      auto_mdix |-> FALSE,
      energy_efficient_ethernet |-> FALSE,
      port_security_enabled |-> FALSE,
      max_mac_addresses |-> 1,
      violation_action |-> EnumMember("shutdown"),
      sticky_mac |-> FALSE,
      restricted_mac_addresses |-> <<>>,
      voice_vlan |-> None,
      voice_vlan_dot1p |-> FALSE,
      voice_vlan_none |-> FALSE,
      spanning_tree_portfast |-> TRUE,
      spanning_tree_portfast_trunk |-> FALSE,
      bpdu_guard |-> FALSE,
      bpdu_filter |-> FALSE,
      loop_guard |-> FALSE,
      root_guard |-> FALSE,
      spanning_tree_link_type |-> None,
      qos_trust |-> None,
      service_policy_input |-> None,
      service_policy_output |-> None,
      qos_cos_override |-> None,
      qos_dscp_override |-> None,
      priority_queue_out |-> FALSE,
      shape_average |-> None,
      police_rate |-> None,
      police_burst |-> None,
      authentication_host_mode |-> "single-host",
      authentication_open |-> FALSE,
      authentication_order |-> <<"dot1x", "mab">>,
      authentication_priority |-> <<"dot1x", "mab">>,
      authentication_periodic |-> FALSE,
      authentication_timer_reauthenticate |-> 3600,
      mab |-> FALSE,
      dot1x |-> FALSE,
      dot1x_timeout_quiet_period |-> 60,
      dot1x_timeout_tx_period |-> 30,
      dot1x_max_req |-> 2,
      webauth |-> FALSE,
      webauth_local |-> TRUE,
      authentication_control_direction |-> "both",
      authentication_fallback |-> None,
      authentication_violation |-> "restrict",
      poe_enabled |-> TRUE,
      poe_inline |-> EnumMember("auto"),
      poe_priority |-> "low",
      poe_limit |-> None,
      storm_control_broadcast_min |-> None,
      storm_control_broadcast_max |-> None,
      storm_control_multicast_min |-> None,
      storm_control_multicast_max |-> None,
      storm_control_unknown_unicast_min |-> None,
      storm_control_unknown_unicast_max |-> None,
      storm_control_unit_pps |-> FALSE,
      storm_control_action |-> None,
      private_vlan_host |-> FALSE,
      private_vlan_mapping |-> None,
      protected_port |-> FALSE,
      no_neighbor |-> FALSE,
      cdp_enabled |-> TRUE,
      lldp_transmit |-> TRUE,
      lldp_receive |-> TRUE,
      errdisable_timeout |-> None,
      errdisable_recovery_cause |-> <<>>,
      dhcp_snoop_rate |-> None,
      dhcp_snoop_trust |-> FALSE,
      arp_inspection_rate |-> None,
      arp_inspection_trust |-> FALSE,
      ip_source_guard |-> FALSE,
      udld_enable |-> FALSE,
      udld_aggressive |-> FALSE,
      flow_control_receive |-> FALSE,
      flow_control_send |-> FALSE,
      load_interval |-> 300,
      device_tracking |-> FALSE,
      ip_dhcp_relay_information |-> FALSE,
      ipv6_nd_inspection |-> FALSE,
      ipv6_ra_guard |-> FALSE ]

\* _fmt_storm_line(traffic_type, mn, mx) -> Optional[str]
Access_fmt_storm_line(self, traffic_type, mn, mx) ==
    IF mn = None THEN None
    ELSE LET unit  == IF self.storm_control_unit_pps THEN "pps" ELSE ""
             line1 == " storm-control " \o traffic_type \o " level " \o FloatStr(mn[1])
             line2 == IF mx # None THEN line1 \o " " \o FloatStr(mx[1]) ELSE line1
             line3 == IF unit # "" THEN line2 \o " " \o unit ELSE line2
         IN  Some(line3)

\* "if line: cfg.append(line)"
AppendIfLine(line) == IF TruthyStr(line) THEN <<line[1]>> ELSE <<>>

\* VLAN definition
Access_vlan_block(self) ==
    <<"vlan " \o Str(self.vlan_id)>>
    \o LineIf(TruthyStr(self.description), " name " \o self.description[1])
    \o <<" exit">>

\* interface range header, mode and VLAN assignment, description
Access_interface_block(self) ==
    <<"interface range " \o Join(",", self.interfaces),
      " switchport mode access",
      " switchport access vlan " \o Str(self.vlan_id)>>
    \o LineIf(TruthyStr(self.description), " description " \o self.description[1])

Access_voice_vlan_block(self) ==
    IF self.voice_vlan_none THEN <<" switchport voice vlan none">>
    ELSE IF self.voice_vlan_dot1p THEN <<" switchport voice vlan dot1p">>
    ELSE IF TruthyInt(self.voice_vlan)
         THEN <<" switchport voice vlan " \o Str(self.voice_vlan[1])>>
    ELSE <<>>

Access_private_vlan_block(self) ==
    LineIf(self.private_vlan_host, " switchport private-vlan host")
    \o LineIf(TruthyStr(self.private_vlan_mapping),
              " switchport private-vlan mapping " \o self.private_vlan_mapping[1])
    \o LineIf(self.protected_port \/ self.no_neighbor, " switchport protected")

Access_stp_block(self) ==
    (IF self.spanning_tree_portfast
     THEN IF self.spanning_tree_portfast_trunk
          THEN <<" spanning-tree portfast trunk">>
          ELSE <<" spanning-tree portfast">>
     ELSE <<>>)
    \o LineIf(self.bpdu_guard, " spanning-tree bpduguard enable")
    \o LineIf(self.bpdu_filter, " spanning-tree bpdufilter enable")
    \o LineIf(self.loop_guard, " spanning-tree guard loop")
    \o LineIf(self.root_guard, " spanning-tree guard root")
    \o LineIf(TruthyStr(self.spanning_tree_link_type),
              " spanning-tree link-type " \o self.spanning_tree_link_type[1])

\* the qos_trust test of line 248
Access_qos_trust_on(self) ==
    TruthyEnum(self.qos_trust) /\ self.qos_trust[1].value # "none"

Access_qos_block(self) ==
    LineIf(Access_qos_trust_on(self), " mls qos trust " \o self.qos_trust[1].value)
    \o LineIf(self.qos_cos_override # None, " mls qos cos " \o Str(self.qos_cos_override[1]))
    \o LineIf(self.qos_dscp_override # None, " mls qos dscp " \o Str(self.qos_dscp_override[1]))
    \o LineIf(TruthyStr(self.service_policy_input),
              " service-policy input " \o self.service_policy_input[1])
    \o LineIf(TruthyStr(self.service_policy_output),
              " service-policy output " \o self.service_policy_output[1])
    \o LineIf(self.priority_queue_out, " priority-queue out")
    \o LineIf(TruthyInt(self.shape_average), " shape average " \o Str(self.shape_average[1]))
    \o (IF TruthyInt(self.police_rate)
        THEN IF TruthyInt(self.police_burst)
             THEN <<" police " \o Str(self.police_rate[1]) \o " " \o Str(self.police_burst[1])>>
             ELSE <<" police " \o Str(self.police_rate[1])>>
        ELSE <<>>)

Access_auth_block(self) ==
    (IF self.dot1x
     THEN <<" authentication port-control auto",
            " authentication host-mode " \o self.authentication_host_mode>>
          \o LineIf(self.authentication_open, " authentication open")
          \o LineIf(self.authentication_order # <<>>,
                    " authentication order " \o Join(" ", self.authentication_order))
          \o LineIf(self.authentication_priority # <<>>,
                    " authentication priority " \o Join(" ", self.authentication_priority))
          \o (IF self.authentication_periodic
              THEN <<" authentication periodic",
                     " authentication timer reauthenticate "
                        \o Str(self.authentication_timer_reauthenticate)>>
              ELSE <<>>)
          \o <<" authentication control-direction " \o self.authentication_control_direction,
               " authentication violation " \o self.authentication_violation>>
          \o LineIf(TruthyStr(self.authentication_fallback),
                    " authentication fallback " \o self.authentication_fallback[1])
          \o <<" dot1x timeout quiet-period " \o Str(self.dot1x_timeout_quiet_period),
               " dot1x timeout tx-period " \o Str(self.dot1x_timeout_tx_period),
               " dot1x max-req " \o Str(self.dot1x_max_req)>>
     ELSE <<>>)
    \o LineIf(self.mab, " mab")
    \o (IF self.webauth
        THEN IF self.webauth_local
             THEN <<" web-auth">>
             ELSE <<" web-auth authentication-list default">>
        ELSE <<>>)

Access_poe_block(self) ==
    IF ~self.poe_enabled
    THEN <<" power inline never">>
    ELSE <<" power inline " \o self.poe_inline.value,
           " power inline priority " \o self.poe_priority>>
         \o LineIf(TruthyInt(self.poe_limit), " power inline max " \o Str(self.poe_limit[1]))

Access_storm_block(self) ==
    AppendIfLine(Access_fmt_storm_line(self, "broadcast",
                    self.storm_control_broadcast_min, self.storm_control_broadcast_max))
    \o AppendIfLine(Access_fmt_storm_line(self, "multicast",
                    self.storm_control_multicast_min, self.storm_control_multicast_max))
    \o AppendIfLine(Access_fmt_storm_line(self, "unknown-unicast",
                    self.storm_control_unknown_unicast_min,
                    self.storm_control_unknown_unicast_max))
    \o LineIf(TruthyStr(self.storm_control_action),
              " storm-control action " \o self.storm_control_action[1])

Access_physical_block(self) ==
    LineIf(self.speed # "auto", " speed " \o self.speed)
    \o LineIf(self.duplex # "auto", " duplex " \o self.duplex)
    \o LineIf(self.auto_mdix, " mdix auto")
    \o LineIf(self.energy_efficient_ethernet, " power efficient-ethernet auto")
    \o LineIf(self.flow_control_receive, " flowcontrol receive on")
    \o LineIf(self.flow_control_send, " flowcontrol send on")

Access_cdp_lldp_block(self) ==
    LineIf(~self.cdp_enabled, " no cdp enable")
    \o LineIf(~self.lldp_transmit, " no lldp transmit")
    \o LineIf(~self.lldp_receive, " no lldp receive")
    \o LineIf(self.load_interval # 300, " load-interval " \o Str(self.load_interval))
    \o (IF self.udld_enable
        THEN IF self.udld_aggressive
             THEN <<" udld port aggressive">>
             ELSE <<" udld port">>
        ELSE <<>>)

Access_errdisable_block(self) ==
    LineIf(TruthyInt(self.errdisable_timeout),
           " errdisable timeout " \o Str(self.errdisable_timeout[1]))
    \o Prefixed(" errdisable recovery cause ", self.errdisable_recovery_cause)

Access_dhcp_arp_block(self) ==
    LineIf(TruthyInt(self.dhcp_snoop_rate),
           " ip dhcp snooping limit rate " \o Str(self.dhcp_snoop_rate[1]))
    \o LineIf(self.dhcp_snoop_trust, " ip dhcp snooping trust")
    \o LineIf(self.ip_dhcp_relay_information, " ip dhcp relay information trusted")
    \o LineIf(TruthyInt(self.arp_inspection_rate),
              " ip arp inspection limit rate " \o Str(self.arp_inspection_rate[1]))
    \o LineIf(self.arp_inspection_trust, " ip arp inspection trust")

Access_source_guard_block(self) ==
    LineIf(self.ip_source_guard, " ip verify source")
    \o LineIf(self.ipv6_nd_inspection, " ipv6 nd inspection")
    \o LineIf(self.ipv6_ra_guard, " ipv6 ra guard")
    \o LineIf(self.device_tracking, " device-tracking")

Access_port_security_block(self) ==
    IF self.port_security_enabled
    THEN <<" switchport port-security",
           " switchport port-security maximum " \o Str(self.max_mac_addresses),
           " switchport port-security violation " \o self.violation_action.value>>
         \o LineIf(self.sticky_mac, " switchport port-security mac-address sticky")
         \o Prefixed(" switchport port-security mac-address ", self.restricted_mac_addresses)
    ELSE <<>>

\* the attribute reads "<field>.value" that generate_config reaches and that
\* fail with AttributeError because the field holds a plain str
Access_raises(self) ==
    \/ Access_qos_trust_on(self) /\ ~HasValueAttr(self.qos_trust[1])
    \/ self.poe_enabled /\ ~HasValueAttr(self.poe_inline)
    \/ self.port_security_enabled /\ ~HasValueAttr(self.violation_action)

Returned(cfg) == [raised |-> FALSE, cfg |-> cfg]
Raised == [raised |-> TRUE, cfg |-> <<>>]

\* variant that emits the storm-control lines ahead of the PoE lines
Access_lines_storm_first(self) ==
    Access_vlan_block(self)
    \o Access_interface_block(self)
    \o Access_voice_vlan_block(self)
    \o Access_private_vlan_block(self)
    \o Access_stp_block(self)
    \o Access_qos_block(self)
    \o Access_auth_block(self)
    \o Access_storm_block(self)
    \o Access_poe_block(self)
    \o Access_physical_block(self)
    \o Access_cdp_lldp_block(self)
    \o Access_errdisable_block(self)
    \o Access_dhcp_arp_block(self)
    \o Access_source_guard_block(self)
    \o Access_port_security_block(self)
    \o <<" exit">>

\* the lines appended after the test of the interface list
Access_lines(self) ==
    Access_vlan_block(self)
    \o Access_interface_block(self)
    \o Access_voice_vlan_block(self)
    \o Access_private_vlan_block(self)
    \o Access_stp_block(self)
    \o Access_qos_block(self)
    \o Access_auth_block(self)
    \o Access_poe_block(self)
    \o Access_storm_block(self)
    \o Access_physical_block(self)
    \o Access_cdp_lldp_block(self)
    \o Access_errdisable_block(self)
    \o Access_dhcp_arp_block(self)
    \o Access_source_guard_block(self)
    \o Access_port_security_block(self)
    \o <<" exit">>

\* variant of generate_config without the test of the interface list
Access_generate_config_no_guard(self) ==
    IF Access_raises(self) THEN Raised ELSE Returned(Access_lines(self))

\* AccessTemplate.generate_config() -> List[str], or AttributeError
Access_generate_config(self) ==
    IF self.interfaces = <<>> THEN Returned(<<>>)
    ELSE IF Access_raises(self) THEN Raised
    ELSE Returned(Access_lines(self))

\* AccessTemplate(**kwargs): the defaults with the given fields replaced
RECURSIVE WithFields(_, _)
WithFields(inst, kwargs) ==
    IF kwargs = <<>> THEN inst
    ELSE WithFields([inst EXCEPT ![kwargs[1][1]] = kwargs[1][2]], Tail(kwargs))

AccessTemplate(kwargs) == WithFields(AccessDefaults, kwargs)

\* the constructor calls a behaviour starts from
AccessExampleKwargs ==
    << <<"interfaces", <<"Gig1/0/1">> >>,
       <<"vlan_id", 10>>,
       <<"port_security_enabled", TRUE>>,
       <<"max_mac_addresses", 2>> >>

\* a port with a feature of every block switched on
AccessFullKwargs ==
    << <<"interfaces", <<"Gig1/0/1", "Gig1/0/2">> >>,
       <<"vlan_id", 10>>,
       <<"description", Some("users")>>,
       <<"voice_vlan", Some(20)>>,
       <<"private_vlan_host", TRUE>>,
       <<"protected_port", TRUE>>,
       <<"bpdu_guard", TRUE>>,
       <<"qos_trust", Some(EnumMember("cos"))>>,
       <<"service_policy_input", Some("PM-IN")>>,
       <<"dot1x", TRUE>>,
       <<"mab", TRUE>>,
       <<"poe_limit", Some(15400)>>,
       <<"storm_control_broadcast_min", Some(100)>>,
       <<"storm_control_action", Some("shutdown")>>,
       <<"speed", "100">>,
       <<"energy_efficient_ethernet", TRUE>>,
       <<"cdp_enabled", FALSE>>,
       <<"udld_enable", TRUE>>,
       <<"errdisable_timeout", Some(300)>>,
       <<"errdisable_recovery_cause", <<"bpduguard", "psecure-violation">> >>,
       <<"dhcp_snoop_rate", Some(15)>>,
       <<"arp_inspection_trust", TRUE>>,
       <<"ip_source_guard", TRUE>>,
       <<"ipv6_ra_guard", TRUE>>,
       <<"port_security_enabled", TRUE>>,
       <<"max_mac_addresses", 2>>,
       <<"sticky_mac", TRUE>>,
       <<"restricted_mac_addresses", <<"aaaa.bbbb.cccc">> >> >>

\* a port whose sub-options are set while the feature they refine is off
AccessSubOptionKwargs ==
    << <<"interfaces", <<"Gig1/0/1">> >>,
       <<"sticky_mac", TRUE>>,
       <<"udld_aggressive", TRUE>>,
       <<"authentication_open", TRUE>>,
       <<"authentication_periodic", TRUE>> >>

AccessCtorCalls ==
    { <<>>,
      << <<"interfaces", <<"Gig1/0/1">> >> >>,
      Append(AccessExampleKwargs, <<"violation_action", PlainStr("restrict")>>),
      Append(AccessExampleKwargs, <<"violation_action", EnumMember("restrict")>>),
      << <<"interfaces", <<"Gig1/0/1", "Gig1/0/2">> >>,
         <<"storm_control_broadcast_min", Some(100)>>,
         <<"storm_control_multicast_min", Some(5)>>,
         <<"storm_control_multicast_max", Some(75)>> >>,
      << <<"interfaces", <<"Gig1/0/1">> >>,
         <<"storm_control_broadcast_min", Some(0)>>,
         <<"storm_control_unknown_unicast_min", Some(30)>>,
         <<"storm_control_unknown_unicast_max", Some(40)>>,
         <<"storm_control_unit_pps", TRUE>>,
         <<"storm_control_action", Some("shutdown")>> >>,
      AccessFullKwargs,
      AccessSubOptionKwargs }

Bools == {TRUE, FALSE}

\* values an attribute assignment may store in each field
AccessFieldValues ==
    [ interfaces |-> {<<>>, <<"Gig1/0/1">>, <<"Gig1/0/1", "Gig1/0/2">>},
      vlan_id |-> {1, 10},
      description |-> {None, Some("users")},
      color |-> {None, Some("#4287f5")},
      speed |-> {"auto", "100"},
      duplex |-> {"auto", "full"},
      auto_mdix |-> Bools,
      energy_efficient_ethernet |-> Bools,
      port_security_enabled |-> Bools,
      max_mac_addresses |-> {1, 2},
      violation_action |-> {EnumMember("shutdown"), EnumMember("restrict"),
                            PlainStr("restrict")},
      sticky_mac |-> Bools,
      restricted_mac_addresses |-> {<<>>, <<"aaaa.bbbb.cccc">>},
      voice_vlan |-> {None, Some(20)},
      voice_vlan_dot1p |-> Bools,
      voice_vlan_none |-> Bools,
      spanning_tree_portfast |-> Bools,
      spanning_tree_portfast_trunk |-> Bools,
      bpdu_guard |-> Bools,
      bpdu_filter |-> Bools,
      loop_guard |-> Bools,
      root_guard |-> Bools,
      spanning_tree_link_type |-> {None, Some("point-to-point")},
      qos_trust |-> {None, Some(EnumMember("cos")), Some(EnumMember("none")),
                     Some(PlainStr("dscp"))},
      service_policy_input |-> {None, Some("PM-IN")},
      service_policy_output |-> {None, Some("PM-OUT")},
      qos_cos_override |-> {None, Some(0)},
      qos_dscp_override |-> {None, Some(46)},
      priority_queue_out |-> Bools,
      shape_average |-> {None, Some(1000)},
      police_rate |-> {None, Some(1000)},
      police_burst |-> {None, Some(8000)},
      authentication_host_mode |-> {"single-host", "multi-auth"},
      authentication_open |-> Bools,
      authentication_order |-> {<<"dot1x", "mab">>, <<>>},
      authentication_priority |-> {<<"dot1x", "mab">>, <<>>},
      authentication_periodic |-> Bools,
      authentication_timer_reauthenticate |-> {3600, 7200},
      mab |-> Bools,
      dot1x |-> Bools,
      dot1x_timeout_quiet_period |-> {60, 30},
      dot1x_timeout_tx_period |-> {30, 10},
      dot1x_max_req |-> {2, 3},
      webauth |-> Bools,
      webauth_local |-> Bools,
      authentication_control_direction |-> {"both", "in"},
      authentication_fallback |-> {None, Some("WEBAUTH")},
      authentication_violation |-> {"restrict", "protect"},
      poe_enabled |-> Bools,
      poe_inline |-> {EnumMember("auto"), EnumMember("static"), PlainStr("never")},
      poe_priority |-> {"low", "high"},
      poe_limit |-> {None, Some(15400)},
      storm_control_broadcast_min |-> {None, Some(100), Some(0)},
      storm_control_broadcast_max |-> {None, Some(205)},
      storm_control_multicast_min |-> {None, Some(5)},
      storm_control_multicast_max |-> {None, Some(75)},
      storm_control_unknown_unicast_min |-> {None, Some(30)},
      storm_control_unknown_unicast_max |-> {None, Some(40)},
      storm_control_unit_pps |-> Bools,
      storm_control_action |-> {None, Some("shutdown")},
      private_vlan_host |-> Bools,
      private_vlan_mapping |-> {None, Some("100 101")},
      protected_port |-> Bools,
      no_neighbor |-> Bools,
      cdp_enabled |-> Bools,
      lldp_transmit |-> Bools,
      lldp_receive |-> Bools,
      errdisable_timeout |-> {None, Some(300)},
      errdisable_recovery_cause |-> {<<>>, <<"bpduguard", "psecure-violation">>},
      dhcp_snoop_rate |-> {None, Some(15)},
      dhcp_snoop_trust |-> Bools,
      arp_inspection_rate |-> {None, Some(15)},
      arp_inspection_trust |-> Bools,
      ip_source_guard |-> Bools,
      udld_enable |-> Bools,
      udld_aggressive |-> Bools,
      flow_control_receive |-> Bools,
      flow_control_send |-> Bools,
      load_interval |-> {300, 30},
      device_tracking |-> Bools,
      ip_dhcp_relay_information |-> Bools,
      ipv6_nd_inspection |-> Bools,
      ipv6_ra_guard |-> Bools ]

(***************************************************************************)
(* VLAN range compaction                                                    *)
(***************************************************************************)
\* sorted(set(vlan_list))
RECURSIVE SortedSeq(_)
SortedSeq(S) ==
    IF S = {} THEN <<>>
    ELSE LET m == CHOOSE x \in S : \A y \in S : x <= y
         IN  <<m>> \o SortedSeq(S \ {m})

sorted_set(vlist) == SortedSeq({vlist[k] : k \in DOMAIN vlist})

\* sorted(vlan_list): duplicates kept
RECURSIVE sorted_list(_)
sorted_list(vlist) ==
    IF vlist = <<>> THEN <<>>
    ELSE LET k == CHOOSE i \in DOMAIN vlist :
                      \A j \in DOMAIN vlist : vlist[i] <= vlist[j]
         IN  <<vlist[k]>>
             \o sorted_list(SubSeq(vlist, 1, k - 1)
                            \o SubSeq(vlist, k + 1, Len(vlist)))

\* the token appended for the run start..end
RangeToken(start, end) ==
    IF start = end THEN Str(start) ELSE Str(start) \o "-" \o Str(end)

\* the for loop of _format_vlan_range and the append after it
RECURSIVE Trunk_range_loop(_, _, _, _)
Trunk_range_loop(rest, ranges, start, end) ==
    IF rest = <<>> THEN Append(ranges, RangeToken(start, end))
    ELSE LET vlan == Head(rest)
         IN  IF vlan = end + 1
             THEN Trunk_range_loop(Tail(rest), ranges, start, vlan)
             ELSE Trunk_range_loop(Tail(rest),
                                   Append(ranges, RangeToken(start, end)), vlan, vlan)

\* variant of _format_vlan_range that sorts the list without set()
Trunk_format_vlan_range_no_set(vlist) ==
    IF vlist = <<>> THEN "1-4094"
    ELSE LET sorted_vlans == sorted_list(vlist)
         IN  Join(",", Trunk_range_loop(Tail(sorted_vlans), <<>>,
                                        sorted_vlans[1], sorted_vlans[1]))

\* TrunkTemplate._format_vlan_range(vlan_list) -> str
Trunk_format_vlan_range(vlist) ==
    IF vlist = <<>> THEN "1-4094"
    ELSE LET sorted_vlans == sorted_set(vlist)
         IN  Join(",", Trunk_range_loop(Tail(sorted_vlans), <<>>,
                                        sorted_vlans[1], sorted_vlans[1]))

\* the for loop of _vlan_list_to_ranges and the append after it
RECURSIVE Switch_range_loop(_, _, _, _)
Switch_range_loop(rest, ranges, start, end) ==
    IF rest = <<>> THEN Append(ranges, RangeToken(start, end))
    ELSE LET vlan == Head(rest)
         IN  IF vlan = end + 1
             THEN Switch_range_loop(Tail(rest), ranges, start, vlan)
             ELSE Switch_range_loop(Tail(rest),
                                    Append(ranges, RangeToken(start, end)), vlan, vlan)

\* SwitchTemplate._vlan_list_to_ranges(vlan_list) -> List[str]
Switch_vlan_list_to_ranges(vlist) ==
    IF vlist = <<>> THEN <<>>
    ELSE LET sorted_vlans == sorted_set(vlist)
         IN  Switch_range_loop(Tail(sorted_vlans), <<>>,
                               sorted_vlans[1], sorted_vlans[1])

NoResult == [called |-> FALSE]
Result(v) == [called |-> TRUE, value |-> v]

VlanPool == (1..MaxVlanId) \cup {9, 10, 11, 4094}

RangeInit ==
    /\ vlan_list \in SeqsUpTo(VlanPool, MaxVlanListLen)
    /\ trunk_range = NoResult
    /\ switch_ranges = NoResult

FormatVlanRange ==
    /\ trunk_range' = Result(Trunk_format_vlan_range(vlan_list))
    /\ UNCHANGED <<vlan_list, switch_ranges>>
    /\ UNCHANGED range_others

VlanListToRanges ==
    /\ switch_ranges' = Result(Switch_vlan_list_to_ranges(vlan_list))
    /\ UNCHANGED <<vlan_list, trunk_range>>
    /\ UNCHANGED range_others

RangeNext == FormatVlanRange \/ VlanListToRanges

(***************************************************************************)
(* TrunkTemplate                                                            *)
(***************************************************************************)
\* TrunkTemplate(): every field at its dataclass default
TrunkDefaults ==
    [ interfaces |-> <<>>,
      description |-> None,
      allowed_vlans |-> <<>>,
      native_vlan |-> 1,
      pruning_enabled |-> FALSE,
      pruning_vlans |-> <<>>,
      encapsulation |-> EnumMember("dot1q"),
      dtp_mode |-> None,
      nonegotiate |-> FALSE,
      spanning_tree_portfast |-> FALSE,
      spanning_tree_guard_root |-> FALSE,
      spanning_tree_guard_loop |-> FALSE,
      spanning_tree_link_type |-> None,
      bpdu_filter_enable |-> FALSE,
      dhcp_snooping_trust |-> FALSE,
      dhcp_snooping_rate_limit |-> None,
      arp_inspection_trust |-> FALSE,
      arp_inspection_rate_limit |-> None,
      ip_source_guard |-> FALSE,
      ipv6_source_guard |-> FALSE,
      ipv6_ra_guard |-> FALSE,
      qos_trust |-> None,
      priority_queue_out |-> FALSE,
      service_policy_input |-> None,
      service_policy_output |-> None,
      shape_average |-> None,
      police_rate |-> None,
      police_burst |-> None,
      storm_control_broadcast_min |-> None,
      storm_control_broadcast_max |-> None,
      storm_control_multicast_min |-> None,
      storm_control_multicast_max |-> None,
      storm_control_unknown_unicast_min |-> None,
      storm_control_unknown_unicast_max |-> None,
      storm_control_unit_pps |-> FALSE,
      storm_control_action |-> None,
      speed |-> "auto",
      duplex |-> "auto",
      auto_mdix |-> FALSE,
      flow_control_receive |-> FALSE,
      flow_control_send |-> FALSE,
      energy_efficient_ethernet |-> FALSE,
      errdisable_timeout |-> None,
      errdisable_recovery_cause |-> <<>>,
      channel_group |-> None,
      channel_group_mode |-> None,
      channel_protocol |-> None,
      lacp_port_priority |-> None,
      lacp_rate |-> None,
      cdp_enabled |-> TRUE,
      lldp_transmit |-> TRUE,
      lldp_receive |-> TRUE,
      port_channel_load_balance |-> None,
      load_interval |-> 300,
      udld_enable |-> FALSE,
      udld_aggressive |-> FALSE ]

\* variant of _fmt_storm_line that appends the unit only after a maximum
Trunk_fmt_storm_line_unit_with_max(self, traffic, mn, mx) ==
    IF mn = None THEN None
    ELSE LET unit == IF self.storm_control_unit_pps THEN " pps" ELSE ""
             line == " storm-control " \o traffic \o " level " \o FloatStr(mn[1])
         IN  IF mx # None THEN Some(line \o " " \o FloatStr(mx[1]) \o unit)
             ELSE Some(line)

\* _fmt_storm_line(traffic, mn, mx) -> Optional[str]
Trunk_fmt_storm_line(self, traffic, mn, mx) ==
    IF mn = None THEN None
    ELSE LET unit  == IF self.storm_control_unit_pps THEN " pps" ELSE ""
             line1 == " storm-control " \o traffic \o " level " \o FloatStr(mn[1])
             line2 == IF mx # None THEN line1 \o " " \o FloatStr(mx[1]) ELSE line1
         IN  Some(line2 \o unit)

\* the text written after "switchport trunk allowed vlan"
Trunk_allowed_vlans(self) == Trunk_format_vlan_range(self.allowed_vlans)

\* interface range header and basic configuration
Trunk_interface_block(self) ==
    <<"interface range " \o Join(",", self.interfaces),
      " switchport mode trunk",
      " switchport trunk native vlan " \o Str(self.native_vlan),
      " switchport trunk allowed vlan " \o Trunk_allowed_vlans(self)>>
    \o LineIf(TruthyStr(self.description), " description " \o self.description[1])

\* the dtp_mode test of line 206
Trunk_dtp_on(self) == TruthyEnum(self.dtp_mode) /\ ~self.nonegotiate

Trunk_encapsulation_block(self) ==
    (IF self.encapsulation.value = "isl"
     THEN <<" switchport trunk encapsulation isl">>
     ELSE <<" switchport trunk encapsulation dot1q">>)
    \o LineIf(Trunk_dtp_on(self), " switchport mode " \o self.dtp_mode[1].value)
    \o LineIf(self.nonegotiate, " switchport nonegotiate")
    \o LineIf(self.pruning_enabled,
              " switchport trunk pruning vlan " \o Trunk_format_vlan_range(self.pruning_vlans))

Trunk_stp_block(self) ==
    LineIf(self.spanning_tree_portfast, " spanning-tree portfast trunk")
    \o LineIf(self.spanning_tree_guard_root, " spanning-tree guard root")
    \o LineIf(self.spanning_tree_guard_loop, " spanning-tree guard loop")
    \o LineIf(TruthyStr(self.spanning_tree_link_type),
              " spanning-tree link-type " \o self.spanning_tree_link_type[1])
    \o LineIf(self.bpdu_filter_enable, " spanning-tree bpdufilter enable")

Trunk_security_block(self) ==
    LineIf(self.dhcp_snooping_trust, " ip dhcp snooping trust")
    \o LineIf(TruthyInt(self.dhcp_snooping_rate_limit),
              " ip dhcp snooping limit rate " \o Str(self.dhcp_snooping_rate_limit[1]))
    \o LineIf(self.arp_inspection_trust, " ip arp inspection trust")
    \o LineIf(TruthyInt(self.arp_inspection_rate_limit),
              " ip arp inspection limit rate " \o Str(self.arp_inspection_rate_limit[1]))
    \o LineIf(self.ip_source_guard, " ip verify source")
    \o LineIf(self.ipv6_source_guard, " ipv6 verify source")
    \o LineIf(self.ipv6_ra_guard, " ipv6 ra guard")

\* the qos_trust test of line 256
Trunk_qos_trust_on(self) ==
    TruthyEnum(self.qos_trust) /\ self.qos_trust[1].value # "none"

Trunk_qos_block(self) ==
    LineIf(Trunk_qos_trust_on(self), " mls qos trust " \o self.qos_trust[1].value)
    \o LineIf(self.priority_queue_out, " priority-queue out")
    \o LineIf(TruthyStr(self.service_policy_input),
              " service-policy input " \o self.service_policy_input[1])
    \o LineIf(TruthyStr(self.service_policy_output),
              " service-policy output " \o self.service_policy_output[1])
    \o LineIf(TruthyInt(self.shape_average), " shape average " \o Str(self.shape_average[1]))
    \o (IF TruthyInt(self.police_rate)
        THEN IF TruthyInt(self.police_burst)
             THEN <<" police " \o Str(self.police_rate[1]) \o " " \o Str(self.police_burst[1])>>
             ELSE <<" police " \o Str(self.police_rate[1])>>
        ELSE <<>>)

Trunk_storm_block(self) ==
    AppendIfLine(Trunk_fmt_storm_line(self, "broadcast",
                    self.storm_control_broadcast_min, self.storm_control_broadcast_max))
    \o AppendIfLine(Trunk_fmt_storm_line(self, "multicast",
                    self.storm_control_multicast_min, self.storm_control_multicast_max))
    \o AppendIfLine(Trunk_fmt_storm_line(self, "unknown-unicast",
                    self.storm_control_unknown_unicast_min,
                    self.storm_control_unknown_unicast_max))
    \o LineIf(TruthyStr(self.storm_control_action),
              " storm-control action " \o self.storm_control_action[1])

Trunk_layer1_block(self) ==
    LineIf(self.speed # "auto", " speed " \o self.speed)
    \o LineIf(self.duplex # "auto", " duplex " \o self.duplex)
    \o LineIf(self.auto_mdix, " mdix auto")
    \o LineIf(self.energy_efficient_ethernet, " power efficient-ethernet auto")
    \o LineIf(self.flow_control_receive, " flowcontrol receive on")
    \o LineIf(self.flow_control_send, " flowcontrol send on")

Trunk_errdisable_block(self) ==
    LineIf(TruthyInt(self.errdisable_timeout),
           " errdisable timeout " \o Str(self.errdisable_timeout[1]))
    \o Prefixed(" errdisable recovery cause ", self.errdisable_recovery_cause)

Trunk_channel_mode_on(self) ==
    TruthyInt(self.channel_group) /\ TruthyEnum(self.channel_group_mode)

Trunk_etherchannel_block(self) ==
    IF TruthyInt(self.channel_group)
    THEN LET mode_str == IF TruthyEnum(self.channel_group_mode)
                         THEN " mode " \o self.channel_group_mode[1].value
                         ELSE ""
         IN  <<" channel-group " \o Str(self.channel_group[1]) \o mode_str>>
             \o LineIf(TruthyStr(self.channel_protocol),
                       " channel-protocol " \o self.channel_protocol[1])
             \o LineIf(TruthyInt(self.lacp_port_priority),
                       " lacp port-priority " \o Str(self.lacp_port_priority[1]))
             \o LineIf(TruthyStr(self.lacp_rate), " lacp rate " \o self.lacp_rate[1])
             \o LineIf(TruthyStr(self.port_channel_load_balance),
                       " port-channel load-balance " \o self.port_channel_load_balance[1])
    ELSE <<>>

Trunk_cdp_lldp_block(self) ==
    LineIf(~self.cdp_enabled, " no cdp enable")
    \o LineIf(~self.lldp_transmit, " no lldp transmit")
    \o LineIf(~self.lldp_receive, " no lldp receive")
    \o LineIf(self.load_interval # 300, " load-interval " \o Str(self.load_interval))
    \o (IF self.udld_enable
        THEN IF self.udld_aggressive
             THEN <<" udld port aggressive">>
             ELSE <<" udld port">>
        ELSE <<>>)

\* the attribute reads "<field>.value" that generate_config reaches and that
\* fail with AttributeError because the field holds a plain str
Trunk_raises(self) ==
    \/ Trunk_dtp_on(self) /\ ~HasValueAttr(self.dtp_mode[1])
    \/ Trunk_qos_trust_on(self) /\ ~HasValueAttr(self.qos_trust[1])
    \/ Trunk_channel_mode_on(self) /\ ~HasValueAttr(self.channel_group_mode[1])

\* the lines appended after the test of the interface list
Trunk_lines(self) ==
    Trunk_interface_block(self)
    \o Trunk_encapsulation_block(self)
    \o Trunk_stp_block(self)
    \o Trunk_security_block(self)
    \o Trunk_qos_block(self)
    \o Trunk_storm_block(self)
    \o Trunk_layer1_block(self)
    \o Trunk_errdisable_block(self)
    \o Trunk_etherchannel_block(self)
    \o Trunk_cdp_lldp_block(self)
    \o <<" exit">>

\* TrunkTemplate.generate_config() -> List[str], or AttributeError
Trunk_generate_config(self) ==
    IF self.interfaces = <<>> THEN Returned(<<>>)
    ELSE IF Trunk_raises(self) THEN Raised
    ELSE Returned(Trunk_lines(self))

TrunkTemplate(kwargs) == WithFields(TrunkDefaults, kwargs)

\* the constructor calls a behaviour starts from
TrunkCtorCalls ==
    { <<>>,
      << <<"interfaces", <<"Gig1/0/23", "Gig1/0/24">> >> >>,
      << <<"interfaces", <<"Gig1/0/23", "Gig1/0/24">> >>,
         <<"allowed_vlans", <<10, 20, 21, 22>> >>,
         <<"native_vlan", 1>> >>,
      << <<"interfaces", <<"Gig1/0/23">> >>,
         <<"storm_control_broadcast_min", Some(100)>>,
         <<"storm_control_multicast_min", Some(5)>>,
         <<"storm_control_multicast_max", Some(75)>> >>,
      << <<"interfaces", <<"Gig1/0/23">> >>,
         <<"storm_control_broadcast_min", Some(0)>>,
         <<"storm_control_unknown_unicast_min", Some(30)>>,
         <<"storm_control_unknown_unicast_max", Some(40)>>,
         <<"storm_control_unit_pps", TRUE>>,
         <<"storm_control_action", Some("shutdown")>> >> }

\* values an attribute assignment may store in each field
TrunkFieldValues ==
    [ interfaces |-> {<<>>, <<"Gig1/0/23">>, <<"Gig1/0/23", "Gig1/0/24">>},
      description |-> {None, Some("uplink")},
      allowed_vlans |-> {<<>>, <<10, 20, 21, 22>>, <<1, 10>>, <<30, 10, 10>>},
      native_vlan |-> {1, 10, 99},
      pruning_enabled |-> Bools,
      pruning_vlans |-> {<<>>, <<2, 3, 5>>},
      encapsulation |-> {EnumMember("dot1q"), EnumMember("isl"), PlainStr("isl")},
      dtp_mode |-> {None, Some(EnumMember("desirable")), Some(PlainStr("auto"))},
      nonegotiate |-> Bools,
      spanning_tree_portfast |-> Bools,
      spanning_tree_guard_root |-> Bools,
      spanning_tree_guard_loop |-> Bools,
      spanning_tree_link_type |-> {None, Some("point-to-point")},
      bpdu_filter_enable |-> Bools,
      dhcp_snooping_trust |-> Bools,
      dhcp_snooping_rate_limit |-> {None, Some(15)},
      arp_inspection_trust |-> Bools,
      arp_inspection_rate_limit |-> {None, Some(15)},
      ip_source_guard |-> Bools,
      ipv6_source_guard |-> Bools,
      ipv6_ra_guard |-> Bools,
      qos_trust |-> {None, Some(EnumMember("cos")), Some(EnumMember("none")),
                     Some(PlainStr("dscp"))},
      priority_queue_out |-> Bools,
      service_policy_input |-> {None, Some("PM-IN")},
      service_policy_output |-> {None, Some("PM-OUT")},
      shape_average |-> {None, Some(1000)},
      police_rate |-> {None, Some(1000)},
      police_burst |-> {None, Some(8000)},
      storm_control_broadcast_min |-> {None, Some(100), Some(0)},
      storm_control_broadcast_max |-> {None, Some(205)},
      storm_control_multicast_min |-> {None, Some(5)},
      storm_control_multicast_max |-> {None, Some(75)},
      storm_control_unknown_unicast_min |-> {None, Some(30)},
      storm_control_unknown_unicast_max |-> {None, Some(40)},
      storm_control_unit_pps |-> Bools,
      storm_control_action |-> {None, Some("shutdown")},
      speed |-> {"auto", "1000"},
      duplex |-> {"auto", "full"},
      auto_mdix |-> Bools,
      flow_control_receive |-> Bools,
      flow_control_send |-> Bools,
      energy_efficient_ethernet |-> Bools,
      errdisable_timeout |-> {None, Some(300)},
      errdisable_recovery_cause |-> {<<>>, <<"bpduguard", "udld">>},
      channel_group |-> {None, Some(1)},
      channel_group_mode |-> {None, Some(EnumMember("active")), Some(PlainStr("on"))},
      channel_protocol |-> {None, Some("lacp")},
      lacp_port_priority |-> {None, Some(100)},
      lacp_rate |-> {None, Some("fast")},
      cdp_enabled |-> Bools,
      lldp_transmit |-> Bools,
      lldp_receive |-> Bools,
      port_channel_load_balance |-> {None, Some("src-dst-ip")},
      load_interval |-> {300, 30},
      udld_enable |-> Bools,
      udld_aggressive |-> Bools ]

(***************************************************************************)
(* A template instance: construction, attribute assignment, rendering       *)
(***************************************************************************)
NotCalled == [raised |-> FALSE, cfg |-> <<"(no call)">>]

TemplateInit ==
    /\ \/ /\ tmpl_class = "AccessTemplate"
          /\ \E kwargs \in AccessCtorCalls : tmpl = AccessTemplate(kwargs)
       \/ /\ tmpl_class = "TrunkTemplate"
          /\ \E kwargs \in TrunkCtorCalls : tmpl = TrunkTemplate(kwargs)
    /\ tmpl_edits = 0
    /\ tmpl_renders = 0
    /\ tmpl_out = NotCalled

\* inst.<field> = value, on an AccessTemplate
AccessSetField ==
    /\ tmpl_class = "AccessTemplate"
    /\ tmpl_edits < MaxEdits
    /\ \E f \in DOMAIN AccessFieldValues :
          \E v \in AccessFieldValues[f] :
             /\ v # tmpl[f]
             /\ tmpl' = [tmpl EXCEPT ![f] = v]
    /\ tmpl_edits' = tmpl_edits + 1
    /\ tmpl_renders' = 0
    /\ tmpl_out' = NotCalled
    /\ UNCHANGED tmpl_class
    /\ UNCHANGED tmpl_others

\* inst.<field> = value, on a TrunkTemplate
TrunkSetField ==
    /\ tmpl_class = "TrunkTemplate"
    /\ tmpl_edits < MaxEdits
    /\ \E f \in DOMAIN TrunkFieldValues :
          \E v \in TrunkFieldValues[f] :
             /\ v # tmpl[f]
             /\ tmpl' = [tmpl EXCEPT ![f] = v]
    /\ tmpl_edits' = tmpl_edits + 1
    /\ tmpl_renders' = 0
    /\ tmpl_out' = NotCalled
    /\ UNCHANGED tmpl_class
    /\ UNCHANGED tmpl_others

\* inst.generate_config(), on an AccessTemplate
AccessGenerateConfig ==
    /\ tmpl_class = "AccessTemplate"
    /\ tmpl_renders < MaxRenders
    /\ tmpl_out' = Access_generate_config(tmpl)
    /\ tmpl_renders' = tmpl_renders + 1
    /\ UNCHANGED <<tmpl_class, tmpl, tmpl_edits>>
    /\ UNCHANGED tmpl_others

\* inst.generate_config(), on a TrunkTemplate
TrunkGenerateConfig ==
    /\ tmpl_class = "TrunkTemplate"
    /\ tmpl_renders < MaxRenders
    /\ tmpl_out' = Trunk_generate_config(tmpl)
    /\ tmpl_renders' = tmpl_renders + 1
    /\ UNCHANGED <<tmpl_class, tmpl, tmpl_edits>>
    /\ UNCHANGED tmpl_others

TemplateNext ==
    AccessSetField \/ TrunkSetField \/ AccessGenerateConfig \/ TrunkGenerateConfig

(***************************************************************************)
(* SwitchTemplate (imported by the views as SwitchL2Template): the device   *)
(* level settings and their rendering                                       *)
(***************************************************************************)
\* VLAN(id, name=None, state="active")
VLAN(id, name) == [id |-> id, name |-> name, state |-> "active"]

\* QoSQueue(queue_id, priority=0, bandwidth=0)
QoSQueue(queue_id, priority, bandwidth) ==
    [queue_id |-> queue_id, priority |-> priority, bandwidth |-> bandwidth]

\* MSTPInstance(instance_id, priority=32768, vlans=[])
MSTPInstance(instance_id, priority, vlans) ==
    [instance_id |-> instance_id, priority |-> priority, vlans |-> vlans]

\* the dataclass fields of SwitchTemplate with their defaults; floats are
\* held in tenths
SwitchDefaults ==
    [ hostname |-> "Switch",
      domain_name |-> "local",
      manager_vlan_id |-> 1,
      manager_ip |-> "192.168.1.1 255.255.255.0",
      default_gateway |-> "192.168.1.254",
      enable_cdp |-> TRUE,
      enable_lldp |-> FALSE,
      vlans |-> << VLAN(1, Some("default")) >>,
      vtp_mode |-> EnumMember("off"),
      vtp_domain |-> None,
      vtp_password |-> None,
      spanning_tree_mode |-> EnumMember("rapid-pvst"),
      spanning_tree_priority |-> 32768,
      bpduguard_default |-> FALSE,
      bpdufilter_default |-> FALSE,
      loopguard_default |-> FALSE,
      rootguard_default |-> FALSE,
      spanning_tree_hello_time |-> 2,
      spanning_tree_forward_time |-> 15,
      spanning_tree_max_age |-> 20,
      mst_config_name |-> None,
      mst_config_revision |-> 0,
      mst_instances |-> <<>>,
      dhcp_snoop_enabled |-> FALSE,
      dhcp_snoop_vlans |-> <<>>,
      dhcp_option82_enabled |-> FALSE,
      arp_inspection_enabled |-> FALSE,
      arp_inspection_vlans |-> <<>>,
      ip_source_guard_default |-> FALSE,
      port_security_default_violation |-> "shutdown",
      storm_control_default_enabled |-> FALSE,
      storm_control_default_threshold |-> 800,
      storm_control_default_unit_pps |-> FALSE,
      qos_enabled |-> FALSE,
      qos_trust_default |-> None,
      auto_qos_enabled |-> FALSE,
      qos_dscp_map |-> <<>>,
      qos_cos_map |-> <<>>,
      qos_queues |-> <<>>,
      logging_enabled |-> TRUE,
      logging_host |-> None,
      logging_level |-> EnumMember("notifications"),
      logging_buffer_size |-> 4096,
      snmp_enabled |-> FALSE,
      snmp_community_ro |-> "public",
      snmp_community_rw |-> None,
      snmp_location |-> None,
      snmp_contact |-> None,
      snmp_traps_enabled |-> FALSE,
      span_enabled |-> FALSE,
      span_source_ports |-> <<>>,
      span_destination_port |-> None,
      netflow_enabled |-> FALSE,
      netflow_collector |-> None,
      udld_mode |-> EnumMember("disabled"),
      igmp_snooping_enabled |-> TRUE,
      mld_snooping_enabled |-> FALSE,
      mac_address_table_aging_time |-> 300,
      jumbo_frames_enabled |-> FALSE,
      system_mtu |-> 1500,
      enable_ssh |-> FALSE,
      enable_secret |-> FALSE,
      aaa_new_model |-> FALSE,
      aaa_authentication_enabled |-> FALSE,
      aaa_authorization_enabled |-> FALSE,
      aaa_accounting_enabled |-> FALSE,
      radius_server |-> None,
      radius_key |-> None,
      tacacs_server |-> None,
      tacacs_key |-> None,
      poe_power_budget |-> 0,
      energy_efficient_ethernet |-> FALSE,
      monitoring_enabled |-> FALSE,
      errdisable_recovery_interval |-> 300 ]

\* SwitchTemplate.vlan_list: a fresh list of the VLAN ids, built at each read
Switch_vlan_list(self) == [k \in DOMAIN self.vlans |-> self.vlans[k].id]

\* the concatenation of a sequence of line sequences
RECURSIVE Flatten(_)
Flatten(seqs) ==
    IF seqs = <<>> THEN <<>> ELSE Head(seqs) \o Flatten(Tail(seqs))

Switch_basic_block(self) ==
    <<"enable", "configure terminal", "hostname " \o self.hostname>>
    \o LineIf(self.domain_name # "", "ip domain-name " \o self.domain_name)
    \o <<IF self.enable_cdp THEN "cdp run" ELSE "no cdp run">>
    \o <<IF self.enable_lldp THEN "lldp run" ELSE "no lldp run">>

\* the lines of one VLAN of the "for vlan in self.vlans" loop
Switch_vlan_lines(vlan) ==
    <<"vlan " \o Str(vlan.id)>>
    \o LineIf(TruthyStr(vlan.name), " name " \o vlan.name[1])
    \o LineIf(vlan.state # "active", " state " \o vlan.state)
    \o <<" exit">>

Switch_vtp_on(self) == self.vtp_mode.value # "off"

Switch_vlan_block(self) ==
    Flatten([k \in DOMAIN self.vlans |-> Switch_vlan_lines(self.vlans[k])])
    \o (IF Switch_vtp_on(self)
        THEN <<"vtp mode " \o self.vtp_mode.value>>
             \o LineIf(TruthyStr(self.vtp_domain), "vtp domain " \o self.vtp_domain[1])
             \o LineIf(TruthyStr(self.vtp_password),
                       "vtp password " \o self.vtp_password[1])
        ELSE <<>>)

Switch_mst_on(self) ==
    self.spanning_tree_mode.value = "mst" /\ TruthyStr(self.mst_config_name)

\* the " instance <id> vlan <range>" lines of one MST instance
Switch_mst_instance_lines(instance) ==
    Prefixed(" instance " \o Str(instance.instance_id) \o " vlan ",
             Switch_vlan_list_to_ranges(instance.vlans))

Switch_mst_priority_lines(instance) ==
    LineIf(instance.priority # 32768,
           "spanning-tree mst " \o Str(instance.instance_id)
               \o " priority " \o Str(instance.priority))

Switch_stp_block(self) ==
    <<"spanning-tree mode " \o self.spanning_tree_mode.value>>
    \o LineIf(self.spanning_tree_priority # 32768,
              "spanning-tree vlan 1-4094 priority " \o Str(self.spanning_tree_priority))
    \o LineIf(self.spanning_tree_hello_time # 2,
              "spanning-tree vlan 1-4094 hello-time "
                  \o Str(self.spanning_tree_hello_time))
    \o LineIf(self.spanning_tree_forward_time # 15,
              "spanning-tree vlan 1-4094 forward-time "
                  \o Str(self.spanning_tree_forward_time))
    \o LineIf(self.spanning_tree_max_age # 20,
              "spanning-tree vlan 1-4094 max-age " \o Str(self.spanning_tree_max_age))
    \o LineIf(self.bpduguard_default, "spanning-tree portfast bpduguard default")
    \o LineIf(self.bpdufilter_default, "spanning-tree portfast bpdufilter default")
    \o LineIf(self.loopguard_default, "spanning-tree loopguard default")
    \o (IF Switch_mst_on(self)
        THEN <<"spanning-tree mst configuration",
               " name " \o self.mst_config_name[1],
               " revision " \o Str(self.mst_config_revision)>>
             \o Flatten([k \in DOMAIN self.mst_instances |->
                           Switch_mst_instance_lines(self.mst_instances[k])])
             \o <<" exit">>
             \o Flatten([k \in DOMAIN self.mst_instances |->
                           Switch_mst_priority_lines(self.mst_instances[k])])
        ELSE <<>>)

Switch_port_security_block(self) ==
    (IF self.dhcp_snoop_enabled
     THEN <<"ip dhcp snooping">>
          \o (IF self.dhcp_snoop_vlans # <<>>
              THEN Prefixed("ip dhcp snooping vlan ",
                            Switch_vlan_list_to_ranges(self.dhcp_snoop_vlans))
              ELSE <<"ip dhcp snooping vlan 1-4094">>)
          \o LineIf(self.dhcp_option82_enabled, "ip dhcp snooping information option")
     ELSE <<>>)
    \o (IF self.arp_inspection_enabled
        THEN <<"ip arp inspection">>
             \o (IF self.arp_inspection_vlans # <<>>
                 THEN Prefixed("ip arp inspection vlan ",
                               Switch_vlan_list_to_ranges(self.arp_inspection_vlans))
                 ELSE <<"ip arp inspection vlan 1-4094">>)
        ELSE <<>>)
    \o (IF self.storm_control_default_enabled
        THEN LET unit == IF self.storm_control_default_unit_pps THEN " pps" ELSE ""
                 level == FloatStr(self.storm_control_default_threshold) \o unit
             IN  <<"storm-control broadcast level " \o level,
                   "storm-control multicast level " \o level,
                   "storm-control unicast level " \o level>>
        ELSE <<>>)

\* "mls qos map <kind> <k> to dscp <v>" for the items of a map
Switch_qos_map_lines(kind, map) ==
    [k \in DOMAIN map |->
        "mls qos map " \o kind \o " " \o Str(map[k][1]) \o " to dscp " \o Str(map[k][2])]

Switch_qos_block(self) ==
    IF self.qos_enabled
    THEN <<"mls qos">>
         \o LineIf(TruthyEnum(self.qos_trust_default),
                   "mls qos trust " \o self.qos_trust_default[1].value)
         \o Switch_qos_map_lines("dscp", self.qos_dscp_map)
         \o Switch_qos_map_lines("cos", self.qos_cos_map)
         \o LineIf(\E k \in DOMAIN self.qos_queues : self.qos_queues[k].priority > 0,
                   "priority-queue out")
         \o LineIf(\E k \in DOMAIN self.qos_queues : self.qos_queues[k].bandwidth > 0,
                   "wrr-queue bandwidth "
                       \o Join(" ", [k \in DOMAIN self.qos_queues |->
                                        Str(self.qos_queues[k].bandwidth)]))
    ELSE <<>>

Switch_monitoring_block(self) ==
    (IF self.logging_enabled
     THEN <<"logging buffered " \o Str(self.logging_buffer_size),
            "logging console " \o self.logging_level.value>>
          \o (IF TruthyStr(self.logging_host)
              THEN <<"logging host " \o self.logging_host[1],
                     "logging trap " \o self.logging_level.value>>
              ELSE <<>>)
     ELSE <<>>)
    \o (IF self.snmp_enabled
        THEN <<"snmp-server community " \o self.snmp_community_ro \o " RO">>
             \o LineIf(TruthyStr(self.snmp_community_rw),
                       "snmp-server community " \o self.snmp_community_rw[1] \o " RW")
             \o LineIf(TruthyStr(self.snmp_location),
                       "snmp-server location " \o self.snmp_location[1])
             \o LineIf(TruthyStr(self.snmp_contact),
                       "snmp-server contact " \o self.snmp_contact[1])
             \o LineIf(self.snmp_traps_enabled, "snmp-server enable traps")
        ELSE <<>>)
    \o (IF self.span_enabled /\ self.span_source_ports # <<>>
           /\ TruthyStr(self.span_destination_port)
        THEN <<"monitor session 1 source interface "
                   \o Join(", ", self.span_source_ports),
               "monitor session 1 destination interface "
                   \o self.span_destination_port[1]>>
        ELSE <<>>)
    \o (IF self.netflow_enabled /\ TruthyStr(self.netflow_collector)
        THEN <<"ip flow-export version 9",
               "ip flow-export destination " \o self.netflow_collector[1]>>
        ELSE <<>>)

Switch_udld_on(self) == self.udld_mode.value # "disabled"

Switch_advanced_l2_block(self) ==
    LineIf(Switch_udld_on(self), "udld " \o self.udld_mode.value)
    \o LineIf(~self.igmp_snooping_enabled, "no ip igmp snooping")
    \o LineIf(self.mld_snooping_enabled, "ipv6 mld snooping")
    \o LineIf(self.mac_address_table_aging_time # 300,
              "mac address-table aging-time " \o Str(self.mac_address_table_aging_time))
    \o LineIf(self.jumbo_frames_enabled, "system mtu " \o Str(self.system_mtu))

Switch_system_block(self) ==
    (IF self.enable_ssh
     THEN <<"crypto key generate rsa modulus 2048", "ip ssh version 2">>
     ELSE <<>>)
    \o LineIf(self.enable_secret, "enable secret 0 Cisco123")
    \o (IF self.aaa_new_model
        THEN <<"aaa new-model">>
             \o LineIf(self.aaa_authentication_enabled,
                       "aaa authentication login default local")
             \o LineIf(self.aaa_authorization_enabled,
                       "aaa authorization exec default local")
             \o LineIf(self.aaa_accounting_enabled,
                       "aaa accounting exec default start-stop group tacacs+")
        ELSE <<>>)
    \o (IF TruthyStr(self.radius_server)
        THEN <<"radius server main",
               " address ipv4 " \o self.radius_server[1]
                   \o " auth-port 1812 acct-port 1813">>
             \o LineIf(TruthyStr(self.radius_key), " key " \o self.radius_key[1])
        ELSE <<>>)
    \o (IF TruthyStr(self.tacacs_server)
        THEN <<"tacacs server main", " address ipv4 " \o self.tacacs_server[1]>>
             \o LineIf(TruthyStr(self.tacacs_key), " key " \o self.tacacs_key[1])
        ELSE <<>>)
    \o LineIf(self.energy_efficient_ethernet, "power efficient-ethernet auto")
    \o (IF self.monitoring_enabled
        THEN <<"errdisable recovery cause all",
               "errdisable recovery interval "
                   \o Str(self.errdisable_recovery_interval)>>
        ELSE <<>>)

Switch_management_svi_block(self) ==
    <<"interface vlan " \o Str(self.manager_vlan_id),
      " ip address " \o self.manager_ip,
      " no shutdown",
      " exit",
      "ip default-gateway " \o self.default_gateway>>

\* the device-wide lines, from "enable" through the default gateway
Switch_preamble(self) ==
    Switch_basic_block(self)
    \o Switch_vlan_block(self)
    \o Switch_stp_block(self)
    \o Switch_port_security_block(self)
    \o Switch_qos_block(self)
    \o Switch_monitoring_block(self)
    \o Switch_advanced_l2_block(self)
    \o Switch_system_block(self)
    \o Switch_management_svi_block(self)

\* the "<enum field>.value" reads the preamble reaches on a plain str
Switch_raises(self) ==
    \/ Switch_vtp_on(self) /\ ~HasValueAttr(self.vtp_mode)
    \/ ~HasValueAttr(self.spanning_tree_mode)
    \/ self.qos_enabled /\ TruthyEnum(self.qos_trust_default)
          /\ ~HasValueAttr(self.qos_trust_default[1])
    \/ self.logging_enabled /\ ~HasValueAttr(self.logging_level)
    \/ Switch_udld_on(self) /\ ~HasValueAttr(self.udld_mode)

\* a nested template: an object of one of the template classes
Child(class, inst) == [class |-> class, inst |-> inst]

\* hasattr(tmpl, "generate_config")
Child_has_generate_config(child) ==
    child.class \in {"AccessTemplate", "TrunkTemplate"}

\* tmpl.generate_config() of a nested port template
Child_generate_config(child) ==
    IF child.class = "AccessTemplate" THEN Access_generate_config(child.inst)
    ELSE Trunk_generate_config(child.inst)

\* the children whose generate_config the loop calls
RenderingChildren(nested) == SelectSeq(nested, Child_has_generate_config)

\* variant of the child loop that appends the lines of the children last
\* to first
Switch_child_lines_reversed(nested) ==
    LET kids == RenderingChildren(nested)
    IN  Flatten([k \in DOMAIN kids |->
                    Child_generate_config(kids[Len(kids) + 1 - k]).cfg])

\* the lines the child loop appends: each child's lines as they are
Switch_child_lines(nested) ==
    LET kids == RenderingChildren(nested)
    IN  Flatten([k \in DOMAIN kids |-> Child_generate_config(kids[k]).cfg])

Switch_children_raise(nested) ==
    \E k \in DOMAIN nested :
        Child_has_generate_config(nested[k]) /\ Child_generate_config(nested[k]).raised

\* variant that closes the configuration before the nested templates
Switch_generate_config_end_first(self, nested) ==
    IF Switch_raises(self) \/ Switch_children_raise(nested) THEN Raised
    ELSE Returned(Switch_preamble(self) \o <<"end">>
                  \o Switch_child_lines(nested) \o <<"write memory">>)

\* SwitchTemplate.generate_config(nested_templates) -> List[str], or
\* AttributeError
Switch_generate_config(self, nested) ==
    IF Switch_raises(self) \/ Switch_children_raise(nested) THEN Raised
    ELSE Returned(Switch_preamble(self)
                  \o Switch_child_lines(nested)
                  \o <<"end", "write memory">>)

SwitchTemplate(kwargs) == WithFields(SwitchDefaults, kwargs)

(***************************************************************************)
(* SwitchL3Template: the L2 rendering with the routing commands appended    *)
(***************************************************************************)
\* SwitchVirtualInterface(vlan_id, ip_address, subnet_mask, ...)
SwitchVirtualInterfaceDefaults ==
    [ vlan_id |-> 1,
      ip_address |-> "",
      subnet_mask |-> "",
      description |-> None,
      secondary_ips |-> <<>>,
      shutdown |-> FALSE,
      helper_addresses |-> <<>>,
      ospf_area |-> None,
      eigrp_as |-> None,
      acl_in |-> None,
      acl_out |-> None ]

SwitchVirtualInterface(kwargs) == WithFields(SwitchVirtualInterfaceDefaults, kwargs)

\* StaticRoute(prefix, mask, next_hop, distance=None, name=None)
StaticRoute(prefix, mask, next_hop, distance, name) ==
    [prefix |-> prefix, mask |-> mask, next_hop |-> next_hop,
     distance |-> distance, name |-> name]

\* ACLEntry(name, sequence, action, protocol, source, ...)
ACLEntryDefaults ==
    [ name |-> "",
      sequence |-> 0,
      action |-> "permit",
      protocol |-> "ip",
      source |-> "any",
      source_wildcard |-> None,
      destination |-> "any",
      destination_wildcard |-> None,
      port_operator |-> None,
      port |-> None,
      port_end |-> None ]

ACLEntry(kwargs) == WithFields(ACLEntryDefaults, kwargs)

\* the fields SwitchL3Template adds to those it inherits
SwitchL3Defaults ==
    [f \in (DOMAIN SwitchDefaults) \cup
           {"svi_interfaces", "static_routes", "routing_enabled", "ospf_process_id",
            "ospf_router_id", "ospf_networks", "ospf_passive_interfaces", "eigrp_as",
            "eigrp_networks", "eigrp_passive_interfaces", "acl_entries",
            "nat_inside_interfaces", "nat_outside_interfaces", "nat_pool",
            "nat_acl_to_pool", "dhcp_pools", "dhcp_excluded_addresses", "hsrp_groups",
            "vrf_definitions", "ip_routing", "ipv6_routing", "policy_routing"} |->
        IF f \in DOMAIN SwitchDefaults THEN SwitchDefaults[f]
        ELSE IF f \in {"routing_enabled", "ip_routing"} THEN TRUE
        ELSE IF f = "ipv6_routing" THEN FALSE
        ELSE IF f = "ospf_process_id" THEN 1
        ELSE <<>>]

\* the ACL names of the model, in the order of Python's str comparison
ACLNames == <<"MGMT", "WEB">>

ACLNameRank(name) == CHOOSE r \in DOMAIN ACLNames : ACLNames[r] = name

\* (x.name, x.sequence) < (y.name, y.sequence)
ACLKeyLess(x, y) ==
    \/ ACLNameRank(x.name) < ACLNameRank(y.name)
    \/ x.name = y.name /\ x.sequence < y.sequence

\* insertion of e behind the entries whose key is not greater (stable)
RECURSIVE ACLInsert(_, _)
ACLInsert(sorted, e) ==
    IF sorted = <<>> THEN <<e>>
    ELSE IF ACLKeyLess(e, Head(sorted)) THEN <<e>> \o sorted
    ELSE <<Head(sorted)>> \o ACLInsert(Tail(sorted), e)

\* sorted(entries, key=lambda x: (x.name, x.sequence))
RECURSIVE ACLSorted(_)
ACLSorted(entries) ==
    IF entries = <<>> THEN <<>>
    ELSE ACLInsert(ACLSorted(SubSeq(entries, 1, Len(entries) - 1)),
                   entries[Len(entries)])

\* str(x) of an Optional[int]
OptIntStr(o) == IF o = None THEN "None" ELSE Str(o[1])

\* the line of one ACL entry
SwitchL3_acl_cmd(entry) ==
    " " \o Str(entry.sequence) \o " " \o entry.action \o " " \o entry.protocol
        \o " " \o entry.source
        \o (IF TruthyStr(entry.source_wildcard)
            THEN " " \o entry.source_wildcard[1] ELSE "")
        \o " " \o entry.destination
        \o (IF TruthyStr(entry.destination_wildcard)
            THEN " " \o entry.destination_wildcard[1] ELSE "")
        \o (IF TruthyStr(entry.port_operator)
            THEN " " \o entry.port_operator[1] \o " " \o OptIntStr(entry.port)
                 \o (IF entry.port_operator[1] = "range" /\ TruthyInt(entry.port_end)
                     THEN " " \o Str(entry.port_end[1]) ELSE "")
            ELSE "")

\* the ACL loop over the sorted entries, current_acl being the open list
RECURSIVE SwitchL3_acl_loop(_, _)
SwitchL3_acl_loop(entries, current_acl) ==
    IF entries = <<>> THEN LineIf(TruthyStr(current_acl), " exit")
    ELSE LET entry == Head(entries)
         IN  (IF current_acl # Some(entry.name)
              THEN LineIf(TruthyStr(current_acl), " exit")
                   \o <<"ip access-list extended " \o entry.name>>
              ELSE <<>>)
             \o <<SwitchL3_acl_cmd(entry)>>
             \o SwitchL3_acl_loop(Tail(entries), Some(entry.name))

SwitchL3_routing_block(self) ==
    LineIf(self.ip_routing, "ip routing")
    \o LineIf(self.ipv6_routing, "ipv6 unicast-routing")

\* the lines of one SVI
SwitchL3_svi_lines(self, svi) ==
    <<"interface Vlan" \o Str(svi.vlan_id)>>
    \o LineIf(TruthyStr(svi.description), " description " \o svi.description[1])
    \o <<" ip address " \o svi.ip_address \o " " \o svi.subnet_mask>>
    \o [k \in DOMAIN svi.secondary_ips |->
           " ip address " \o svi.secondary_ips[k][1] \o " "
               \o svi.secondary_ips[k][2] \o " secondary"]
    \o Prefixed(" ip helper-address ", svi.helper_addresses)
    \o LineIf(TruthyStr(svi.acl_in), " ip access-group " \o svi.acl_in[1] \o " in")
    \o LineIf(TruthyStr(svi.acl_out), " ip access-group " \o svi.acl_out[1] \o " out")
    \o LineIf(TruthyStr(svi.ospf_area),
              " ip ospf " \o Str(self.ospf_process_id) \o " area " \o svi.ospf_area[1])
    \o LineIf(TruthyInt(svi.eigrp_as), " ip eigrp " \o Str(svi.eigrp_as[1]))
    \o <<IF svi.shutdown THEN " shutdown" ELSE " no shutdown">>
    \o <<" exit">>

SwitchL3_svi_block(self) ==
    Flatten([k \in DOMAIN self.svi_interfaces |->
                SwitchL3_svi_lines(self, self.svi_interfaces[k])])

SwitchL3_static_route_line(route) ==
    "ip route " \o route.prefix \o " " \o route.mask \o " " \o route.next_hop
        \o (IF TruthyInt(route.distance) THEN " " \o Str(route.distance[1]) ELSE "")
        \o (IF TruthyStr(route.name) THEN " name " \o route.name[1] ELSE "")

SwitchL3_static_routes_block(self) ==
    [k \in DOMAIN self.static_routes |->
        SwitchL3_static_route_line(self.static_routes[k])]

SwitchL3_ospf_block(self) ==
    IF self.ospf_networks # <<>>
    THEN <<"router ospf " \o Str(self.ospf_process_id)>>
         \o LineIf(TruthyStr(self.ospf_router_id),
                   " router-id " \o self.ospf_router_id[1])
         \o [k \in DOMAIN self.ospf_networks |->
                " network " \o self.ospf_networks[k][1] \o " "
                    \o self.ospf_networks[k][2] \o " area " \o self.ospf_networks[k][3]]
         \o Prefixed(" passive-interface ", self.ospf_passive_interfaces)
         \o <<" exit">>
    ELSE <<>>

SwitchL3_eigrp_block(self) ==
    IF TruthyInt(self.eigrp_as) /\ self.eigrp_networks # <<>>
    THEN <<"router eigrp " \o Str(self.eigrp_as[1])>>
         \o [k \in DOMAIN self.eigrp_networks |->
                " network " \o self.eigrp_networks[k][1] \o " "
                    \o self.eigrp_networks[k][2]]
         \o Prefixed(" passive-interface ", self.eigrp_passive_interfaces)
         \o <<" exit">>
    ELSE <<>>

SwitchL3_acl_block_unsorted(self) == SwitchL3_acl_loop(self.acl_entries, None)

SwitchL3_acl_block(self) == SwitchL3_acl_loop(ACLSorted(self.acl_entries), None)

\* "interface <intf>", one command, " exit" for each interface
SwitchL3_interface_lines(intfs, command) ==
    Flatten([k \in DOMAIN intfs |-> <<"interface " \o intfs[k], command, " exit">>])

SwitchL3_nat_block(self) ==
    IF self.nat_inside_interfaces # <<>> \/ self.nat_outside_interfaces # <<>>
    THEN SwitchL3_interface_lines(self.nat_inside_interfaces, " ip nat inside")
         \o SwitchL3_interface_lines(self.nat_outside_interfaces, " ip nat outside")
         \o (IF self.nat_pool # <<>> /\ self.nat_acl_to_pool # <<>>
             THEN [k \in DOMAIN self.nat_pool |->
                      "ip nat pool " \o self.nat_pool[k][1] \o " " \o self.nat_pool[k][2]]
                  \o [k \in DOMAIN self.nat_acl_to_pool |->
                         "ip nat inside source list " \o self.nat_acl_to_pool[k][1]
                             \o " pool " \o self.nat_acl_to_pool[k][2]]
             ELSE <<>>)
    ELSE <<>>

\* " <key> <value>" for the items of a dict
SwitchL3_key_value_lines(config) ==
    [k \in DOMAIN config |-> " " \o config[k][1] \o " " \o config[k][2]]

\* "<header> <name>", the key/value lines and " exit" for each item
SwitchL3_named_blocks(header, defs) ==
    Flatten([k \in DOMAIN defs |->
                <<header \o defs[k][1]>>
                \o SwitchL3_key_value_lines(defs[k][2])
                \o <<" exit">>])

SwitchL3_dhcp_block(self) ==
    Prefixed("ip dhcp excluded-address ", self.dhcp_excluded_addresses)
    \o SwitchL3_named_blocks("ip dhcp pool ", self.dhcp_pools)

\* the standby lines of one HSRP group; config is a dict of texts
SwitchL3_hsrp_group_lines(group_id, config) ==
    LET standby == " standby " \o group_id
    IN  <<standby \o " ip " \o DictGet(config, "ip", "")>>
        \o LineIf(DictHas(config, "priority"),
                  standby \o " priority " \o DictGet(config, "priority", ""))
        \o LineIf(DictHas(config, "preempt") /\ DictGet(config, "preempt", "") # "",
                  standby \o " preempt")
        \o LineIf(DictHas(config, "track"),
                  standby \o " track " \o DictGet(config, "track", ""))

SwitchL3_hsrp_block(self) ==
    Flatten([k \in DOMAIN self.hsrp_groups |->
                <<"interface " \o self.hsrp_groups[k][1]>>
                \o Flatten([g \in DOMAIN self.hsrp_groups[k][2] |->
                               SwitchL3_hsrp_group_lines(self.hsrp_groups[k][2][g][1],
                                                         self.hsrp_groups[k][2][g][2])])
                \o <<" exit">>])

SwitchL3_vrf_block(self) == SwitchL3_named_blocks("vrf definition ", self.vrf_definitions)

SwitchL3_pbr_block(self) ==
    Flatten([k \in DOMAIN self.policy_routing |->
                <<"interface " \o self.policy_routing[k][1],
                  " ip policy route-map " \o self.policy_routing[k][2],
                  " exit">>])

\* the lines appended between the L2 rendering and the final end
SwitchL3_lines(self) ==
    SwitchL3_routing_block(self)
    \o SwitchL3_svi_block(self)
    \o SwitchL3_static_routes_block(self)
    \o SwitchL3_ospf_block(self)
    \o SwitchL3_eigrp_block(self)
    \o SwitchL3_acl_block(self)
    \o SwitchL3_nat_block(self)
    \o SwitchL3_dhcp_block(self)
    \o SwitchL3_hsrp_block(self)
    \o SwitchL3_vrf_block(self)
    \o SwitchL3_pbr_block(self)

\* config['ip'] of an HSRP group without the key: KeyError
SwitchL3_raises(self) ==
    \E k \in DOMAIN self.hsrp_groups :
        \E g \in DOMAIN self.hsrp_groups[k][2] :
            ~DictHas(self.hsrp_groups[k][2][g][2], "ip")

\* list.pop(index) for a negative index: the list without that element
PopAt(cfg, back) ==
    LET at == Len(cfg) + 1 - back
    IN  SubSeq(cfg, 1, at - 1) \o SubSeq(cfg, at + 1, Len(cfg))

\* the two tests and pops of lines 137-140 on the L2 rendering
SwitchL3_strip_tail(cfg) ==
    LET popped == IF cfg[Len(cfg)] = "write memory" THEN PopAt(cfg, 1) ELSE cfg
    IN  IF popped[Len(popped) - 1] = "end" THEN PopAt(popped, 2) ELSE popped

\* SwitchL3Template.generate_config(nested_templates) -> List[str], or an
\* exception
SwitchL3_generate_config(self, nested) ==
    LET base == Switch_generate_config(self, nested)
    IN  IF base.raised \/ SwitchL3_raises(self) THEN Raised
        ELSE Returned(SwitchL3_strip_tail(base.cfg)
                      \o SwitchL3_lines(self)
                      \o <<"end", "write memory">>)

SwitchL3Template(kwargs) == WithFields(SwitchL3Defaults, kwargs)

(***************************************************************************)
(* A chassis template: construction and rendering with nested templates     *)
(***************************************************************************)
\* a switch with a feature of every section switched on
SwitchFullKwargs ==
    << <<"hostname", "SW1">>,
       <<"enable_lldp", TRUE>>,
       <<"vlans", << VLAN(1, Some("default")), VLAN(10, Some("users")), VLAN(20, None) >> >>,
       <<"vtp_mode", EnumMember("transparent")>>,
       <<"vtp_domain", Some("LAB")>>,
       <<"spanning_tree_mode", EnumMember("mst")>>,
       <<"spanning_tree_priority", 4096>>,
       <<"bpduguard_default", TRUE>>,
       <<"mst_config_name", Some("REGION1")>>,
       <<"mst_instances", << MSTPInstance(1, 4096, <<10, 11, 12, 20>>),
                             MSTPInstance(2, 32768, <<>>) >> >>,
       <<"dhcp_snoop_enabled", TRUE>>,
       <<"dhcp_snoop_vlans", <<10, 20, 21>> >>,
       <<"arp_inspection_enabled", TRUE>>,
       <<"storm_control_default_enabled", TRUE>>,
       <<"storm_control_default_unit_pps", TRUE>>,
       <<"qos_enabled", TRUE>>,
       <<"qos_trust_default", Some(EnumMember("dscp"))>>,
       <<"qos_dscp_map", << <<46, 40>> >> >>,
       <<"qos_cos_map", << <<5, 46>>, <<3, 24>> >> >>,
       <<"qos_queues", << QoSQueue(1, 1, 0), QoSQueue(2, 0, 30) >> >>,
       <<"logging_host", Some("10.0.0.5")>>,
       <<"snmp_enabled", TRUE>>,
       <<"snmp_location", Some("rack 4")>>,
       <<"snmp_traps_enabled", TRUE>>,
       <<"span_enabled", TRUE>>,
       <<"span_source_ports", <<"Gi1/0/1", "Gi1/0/2">> >>,
       <<"span_destination_port", Some("Gi1/0/24")>>,
       <<"netflow_enabled", TRUE>>,
       <<"netflow_collector", Some("10.0.0.9 2055")>>,
       <<"udld_mode", EnumMember("aggressive")>>,
       <<"igmp_snooping_enabled", FALSE>>,
       <<"jumbo_frames_enabled", TRUE>>,
       <<"system_mtu", 9000>>,
       <<"enable_ssh", TRUE>>,
       <<"aaa_new_model", TRUE>>,
       <<"aaa_accounting_enabled", TRUE>>,
       <<"radius_server", Some("10.0.0.7")>>,
       <<"radius_key", Some("s3cret")>>,
       <<"tacacs_server", Some("10.0.0.8")>>,
       <<"monitoring_enabled", TRUE>> >>

\* values a constructor keyword may carry, for each field of SwitchTemplate
SwitchFieldValues ==
    [ hostname |-> {"SW1", "end"},
      domain_name |-> {"", "corp.example"},
      manager_vlan_id |-> {10},
      manager_ip |-> {"10.0.0.2 255.255.255.0", ""},
      default_gateway |-> {"10.0.0.1", ""},
      enable_cdp |-> {FALSE},
      enable_lldp |-> {TRUE},
      vlans |-> { <<>>,
                  << VLAN(1, Some("default")), VLAN(10, Some("VLAN10")) >>,
                  << VLAN(10, None), [VLAN(20, Some("")) EXCEPT !.state = "suspend"] >> },
      vtp_mode |-> {EnumMember("server"), PlainStr("off"), PlainStr("client")},
      vtp_domain |-> {Some("LAB")},
      vtp_password |-> {Some("pw")},
      spanning_tree_mode |-> {EnumMember("pvst"), EnumMember("mst"), PlainStr("pvst")},
      spanning_tree_priority |-> {4096},
      bpduguard_default |-> {TRUE},
      bpdufilter_default |-> {TRUE},
      loopguard_default |-> {TRUE},
      rootguard_default |-> {TRUE},
      spanning_tree_hello_time |-> {1},
      spanning_tree_forward_time |-> {10},
      spanning_tree_max_age |-> {10},
      mst_config_name |-> {Some("REGION1")},
      mst_config_revision |-> {3},
      mst_instances |-> { << MSTPInstance(1, 4096, <<10, 11>>) >> },
      dhcp_snoop_enabled |-> {TRUE},
      dhcp_snoop_vlans |-> { <<10, 11>> },
      dhcp_option82_enabled |-> {TRUE},
      arp_inspection_enabled |-> {TRUE},
      arp_inspection_vlans |-> { <<20, 10>> },
      ip_source_guard_default |-> {TRUE},
      port_security_default_violation |-> {"restrict"},
      storm_control_default_enabled |-> {TRUE},
      storm_control_default_threshold |-> {505},
      storm_control_default_unit_pps |-> {TRUE},
      qos_enabled |-> {TRUE},
      qos_trust_default |-> {Some(EnumMember("cos")), Some(PlainStr("cos"))},
      auto_qos_enabled |-> {TRUE},
      qos_dscp_map |-> { << <<46, 40>> >> },
      qos_cos_map |-> { << <<5, 46>> >> },
      qos_queues |-> { << QoSQueue(1, 1, 20) >> },
      logging_enabled |-> {FALSE},
      logging_host |-> {Some("10.0.0.5")},
      logging_level |-> {EnumMember("errors"), PlainStr("errors")},
      logging_buffer_size |-> {8192},
      snmp_enabled |-> {TRUE},
      snmp_community_ro |-> {"ro"},
      snmp_community_rw |-> {Some("rw")},
      snmp_location |-> {Some("rack 4")},
      snmp_contact |-> {Some("noc")},
      snmp_traps_enabled |-> {TRUE},
      span_enabled |-> {TRUE},
      span_source_ports |-> { <<"Gi1/0/1">> },
      span_destination_port |-> {Some("Gi1/0/24")},
      netflow_enabled |-> {TRUE},
      netflow_collector |-> {Some("10.0.0.9 2055")},
      udld_mode |-> {EnumMember("normal"), PlainStr("normal")},
      igmp_snooping_enabled |-> {FALSE},
      mld_snooping_enabled |-> {TRUE},
      mac_address_table_aging_time |-> {600},
      jumbo_frames_enabled |-> {TRUE},
      system_mtu |-> {9000},
      enable_ssh |-> {TRUE},
      enable_secret |-> {TRUE},
      aaa_new_model |-> {TRUE},
      aaa_authentication_enabled |-> {TRUE},
      aaa_authorization_enabled |-> {TRUE},
      aaa_accounting_enabled |-> {TRUE},
      radius_server |-> {Some("10.0.0.7")},
      radius_key |-> {Some("s3cret")},
      tacacs_server |-> {Some("10.0.0.8")},
      tacacs_key |-> {Some("s3cret")},
      poe_power_budget |-> {370},
      energy_efficient_ethernet |-> {TRUE},
      monitoring_enabled |-> {TRUE},
      errdisable_recovery_interval |-> {60} ]

\* the constructor calls with one keyword, for the fields and values given
SingleKeywordCalls(values) ==
    UNION { { << <<f, v>> >> : v \in values[f] } : f \in DOMAIN values }

SwitchCtorCalls ==
    { <<>>, SwitchFullKwargs } \cup SingleKeywordCalls(SwitchFieldValues)

\* an L3 switch with every routing feature configured
SwitchL3FullKwargs ==
    << <<"hostname", "L3SW">>,
       <<"ipv6_routing", TRUE>>,
       <<"svi_interfaces",
         << SwitchVirtualInterface(<< <<"vlan_id", 10>>,
                                      <<"ip_address", "10.0.10.1">>,
                                      <<"subnet_mask", "255.255.255.0">>,
                                      <<"description", Some("users")>>,
                                      <<"secondary_ips", << <<"10.0.11.1", "255.255.255.0">> >> >>,
                                      <<"helper_addresses", <<"10.0.0.5">> >>,
                                      <<"ospf_area", Some("0")>>,
                                      <<"eigrp_as", Some(100)>>,
                                      <<"acl_in", Some("WEB")>>,
                                      <<"acl_out", Some("MGMT")>> >>),
            SwitchVirtualInterface(<< <<"vlan_id", 20>>,
                                      <<"ip_address", "10.0.20.1">>,
                                      <<"subnet_mask", "255.255.255.0">>,
                                      <<"shutdown", TRUE>> >>) >> >>,
       <<"static_routes",
         << StaticRoute("0.0.0.0", "0.0.0.0", "10.0.0.1", None, None),
            StaticRoute("10.9.0.0", "255.255.0.0", "10.0.0.9", Some(200), Some("backup")) >> >>,
       <<"ospf_router_id", Some("1.1.1.1")>>,
       <<"ospf_networks", << <<"10.0.10.0", "0.0.0.255", "0">> >> >>,
       <<"ospf_passive_interfaces", <<"Vlan20">> >>,
       <<"eigrp_as", Some(100)>>,
       <<"eigrp_networks", << <<"10.0.20.0", "0.0.0.255">> >> >>,
       <<"eigrp_passive_interfaces", <<"Vlan10">> >>,
       <<"acl_entries",
         << ACLEntry(<< <<"name", "WEB">>, <<"sequence", 20>>, <<"action", "deny">>,
                        <<"protocol", "tcp">>, <<"port_operator", Some("range")>>,
                        <<"port", Some(80)>>, <<"port_end", Some(90)>> >>),
            ACLEntry(<< <<"name", "MGMT">>, <<"sequence", 10>>,
                        <<"source", "10.0.0.0">>,
                        <<"source_wildcard", Some("0.0.0.255")>>,
                        <<"destination", "10.0.10.0">>,
                        <<"destination_wildcard", Some("0.0.0.255")>> >>),
            ACLEntry(<< <<"name", "WEB">>, <<"sequence", 10>>, <<"protocol", "tcp">>,
                        <<"port_operator", Some("eq")>> >>) >> >>,
       <<"nat_inside_interfaces", <<"Vlan10">> >>,
       <<"nat_outside_interfaces", <<"Vlan20">> >>,
       <<"nat_pool", << <<"POOL1", "198.51.100.1 198.51.100.9 prefix-length 24">> >> >>,
       <<"nat_acl_to_pool", << <<"WEB", "POOL1">> >> >>,
       <<"dhcp_excluded_addresses", <<"10.0.10.1">> >>,
       <<"dhcp_pools", << <<"USERS", << <<"network", "10.0.10.0 255.255.255.0">>,
                                         <<"default-router", "10.0.10.1">> >> >> >> >>,
       <<"hsrp_groups", << <<"Vlan10", << <<"1", << <<"ip", "10.0.10.254">>,
                                                     <<"priority", "110">>,
                                                     <<"preempt", "yes">>,
                                                     <<"track", "Gi1/0/1">> >> >> >> >> >> >>,
       <<"vrf_definitions", << <<"RED", << <<"rd", "65000:1">>,
                                           <<"address-family ipv4", "">> >> >> >> >>,
       <<"policy_routing", << <<"Vlan10", "PBR-MAP">> >> >> >>

\* values a constructor keyword may carry, for fields SwitchL3Template adds
SwitchL3FieldValues ==
    [ ip_routing |-> {FALSE},
      ipv6_routing |-> {TRUE},
      svi_interfaces |-> { << SwitchVirtualInterface(<< <<"vlan_id", 10>>,
                                                         <<"ip_address", "10.0.10.1">>,
                                                         <<"subnet_mask", "255.255.255.0">> >>) >> },
      static_routes |-> { << StaticRoute("0.0.0.0", "0.0.0.0", "10.0.0.1", Some(0), Some("")) >> },
      ospf_networks |-> { << <<"10.0.10.0", "0.0.0.255", "0">> >> },
      eigrp_as |-> {Some(100)},
      acl_entries |-> { << ACLEntry(<< <<"name", "WEB">>, <<"sequence", 10>> >>) >> },
      nat_inside_interfaces |-> { <<"Vlan10">> },
      nat_pool |-> { << <<"POOL1", "198.51.100.1 198.51.100.9 prefix-length 24">> >> },
      dhcp_excluded_addresses |-> { <<"10.0.10.1">> },
      dhcp_pools |-> { << <<"USERS", <<>> >> >> },
      hsrp_groups |-> { << <<"Vlan10", << <<"1", << <<"ip", "10.0.10.254">> >> >> >> >> >>,
                        << <<"Vlan10", << <<"1", << <<"priority", "110">> >> >> >> >> >> },
      vrf_definitions |-> { << <<"RED", <<>> >> >> },
      policy_routing |-> { << <<"Vlan10", "PBR-MAP">> >> },
      hostname |-> {"L3SW"},
      vlans |-> { << VLAN(1, Some("default")), VLAN(10, Some("VLAN10")) >> },
      spanning_tree_mode |-> {PlainStr("pvst")},
      default_gateway |-> {"end"} ]

\* ACL entries of two lists with two sequence numbers each, and the
\* acl_entries lists made of them, in every order and with repeats
ACLExamples ==
    { ACLEntry(<< <<"name", n>>, <<"sequence", q>> >>) : n \in Range(ACLNames), q \in {10, 20} }

ACLEntryLists == UNION { [1..n -> ACLExamples] : n \in 1..MaxACLEntries }

SwitchL3CtorCalls ==
    { <<>>, SwitchL3FullKwargs } \cup SingleKeywordCalls(SwitchL3FieldValues)
    \cup { << <<"acl_entries", es>> >> : es \in ACLEntryLists }

\* a trunk on two uplinks
TrunkExampleKwargs ==
    << <<"interfaces", <<"Gig1/0/23", "Gig1/0/24">> >>,
       <<"allowed_vlans", <<10, 20>> >>,
       <<"native_vlan", 1>> >>

\* the lists of nested templates a caller passes (None is the empty list)
NestedLists ==
    { <<>>,
      << Child("AccessTemplate", AccessTemplate(AccessExampleKwargs)) >>,
      << Child("AccessTemplate", AccessTemplate(AccessFullKwargs)),
         Child("TrunkTemplate", TrunkTemplate(TrunkExampleKwargs)) >>,
      << Child("TrunkTemplate", TrunkTemplate(TrunkExampleKwargs)),
         Child("AccessTemplate", AccessTemplate(AccessExampleKwargs)),
         Child("AccessTemplate", AccessTemplate(AccessExampleKwargs)) >>,
      << Child("AccessTemplate", AccessTemplate(<< <<"vlan_id", 10>> >>)),
         Child("RouterTemplate", [hostname |-> "Router"]),
         Child("TrunkTemplate", TrunkTemplate(TrunkExampleKwargs)) >>,
      << Child("TrunkTemplate", TrunkTemplate(<<>>)) >>,
      << Child("AccessTemplate",
               AccessTemplate(Append(AccessExampleKwargs,
                                     <<"violation_action", PlainStr("restrict")>>))) >> }

SwitchInit ==
    /\ \/ /\ tmpl_class = "SwitchTemplate"
          /\ \E kwargs \in SwitchCtorCalls : tmpl = SwitchTemplate(kwargs)
       \/ /\ tmpl_class = "SwitchL3Template"
          /\ \E kwargs \in SwitchL3CtorCalls : tmpl = SwitchL3Template(kwargs)
    /\ tmpl_edits = 0
    /\ tmpl_renders = 0
    /\ tmpl_out = NotCalled
    /\ nested_templates = <<>>

\* inst.generate_config(nested_templates), on a SwitchTemplate
SwitchGenerateConfig ==
    /\ tmpl_class = "SwitchTemplate"
    /\ tmpl_renders < MaxRenders
    /\ \E n \in NestedLists :
          /\ nested_templates' = n
          /\ tmpl_out' = Switch_generate_config(tmpl, n)
    /\ tmpl_renders' = tmpl_renders + 1
    /\ UNCHANGED <<tmpl_class, tmpl, tmpl_edits>>
    /\ UNCHANGED switch_others

\* inst.generate_config(nested_templates), on a SwitchL3Template
SwitchL3GenerateConfig ==
    /\ tmpl_class = "SwitchL3Template"
    /\ tmpl_renders < MaxRenders
    /\ \E n \in NestedLists :
          /\ nested_templates' = n
          /\ tmpl_out' = SwitchL3_generate_config(tmpl, n)
    /\ tmpl_renders' = tmpl_renders + 1
    /\ UNCHANGED <<tmpl_class, tmpl, tmpl_edits>>
    /\ UNCHANGED switch_others

SwitchNext == SwitchGenerateConfig \/ SwitchL3GenerateConfig

(***************************************************************************)
(* Specifications: one per component, the other components standing still   *)
(***************************************************************************)
IAMIdle ==
    /\ interfaces = <<>>
    /\ default_template = "vlan"
    /\ interface_map = IAM_init(<<>>, "vlan")
    /\ assigns = <<>>
    /\ iam_last = NoCall

TemplateIdle ==
    /\ tmpl_class = "AccessTemplate"
    /\ tmpl = AccessTemplate(<<>>)
    /\ tmpl_edits = 0
    /\ tmpl_renders = 0
    /\ tmpl_out = NotCalled

RangeIdle ==
    /\ vlan_list = <<>>
    /\ trunk_range = NoResult
    /\ switch_ranges = NoResult

ChassisIdle == nested_templates = <<>>

FormIdle ==
    /\ current_form_class = ""
    /\ current_form = <<>>
    /\ form_edits = 0
    /\ build = [kind |-> "", class |-> "", inst |-> <<>>]
    /\ built_by = ""

PageIdle ==
    /\ custom_templates = <<>>
    /\ current_template_type = "device"
    /\ applied = [class |-> "", inst |-> <<>>, nested |-> <<>>, out |-> NotCalled]
    /\ page_last = [op |-> "", outcome |-> ""]
    /\ page_ops = 0
    /\ page_arg = ""
    /\ switch_layer = "L2"

NameIdle ==
    /\ name_instance = Child("AccessTemplate", AccessTemplate(<<>>))
    /\ name_keys = {}
    /\ template_name = None

NavIdle ==
    /\ device_type = "router"
    /\ selected_model = None
    /\ selected_device = None
    /\ previous_device_type = None
    /\ pages = [cls \in {"StartPage", "ConfigPage"} |->
                    IF cls = "StartPage" THEN Some("StartPage") ELSE None]
    /\ central_widget = "StartPage"
    /\ nav_last = "__init__"

InitIAM == IAMInit /\ TemplateIdle /\ RangeIdle /\ ChassisIdle /\ FormIdle /\ PageIdle /\ NameIdle /\ NavIdle

SpecIAM == InitIAM /\ [][IAMNext]_vars

InitTemplates == TemplateInit /\ IAMIdle /\ RangeIdle /\ ChassisIdle /\ FormIdle /\ PageIdle /\ NameIdle /\ NavIdle

SpecTemplates == InitTemplates /\ [][TemplateNext]_vars

InitRanges == RangeInit /\ IAMIdle /\ TemplateIdle /\ ChassisIdle /\ FormIdle /\ PageIdle /\ NameIdle /\ NavIdle

SpecRanges == InitRanges /\ [][RangeNext]_vars

InitSwitch == SwitchInit /\ IAMIdle /\ RangeIdle /\ FormIdle /\ PageIdle /\ NameIdle /\ NavIdle

SpecSwitch == InitSwitch /\ [][SwitchNext]_vars

(***************************************************************************)
(* Reading generated text back                                              *)
(***************************************************************************)
StartsWith(s, p) == Len(s) >= Len(p) /\ SubSeq(s, 1, Len(p)) = p

EndsWith(s, p) == Len(s) >= Len(p) /\ SubSeq(s, Len(s) - Len(p) + 1, Len(s)) = p

\* the text after the prefix p
After(s, p) == SubSeq(s, Len(p) + 1, Len(s))

\* the line without its leading blanks
RECURSIVE LStrip(_)
LStrip(s) == IF StartsWith(s, " ") THEN LStrip(Tail(s)) ELSE s

\* position of the first occurrence of the character c in s, 0 if none
FirstIndex(s, c) ==
    LET hits == {k \in 1..Len(s) : SubSeq(s, k, k) = c}
    IN  IF hits = {} THEN 0 ELSE CHOOSE k \in hits : \A l \in hits : k <= l

\* s.split(c)
RECURSIVE Split(_, _)
Split(s, c) ==
    LET k == FirstIndex(s, c)
    IN  IF k = 0 THEN <<s>>
        ELSE <<SubSeq(s, 1, k - 1)>> \o Split(SubSeq(s, k + 1, Len(s)), c)

Digits == <<"0", "1", "2", "3", "4", "5", "6", "7", "8", "9">>

DigitValue(c) ==
    IF \E d \in DOMAIN Digits : Digits[d] = c
    THEN (CHOOSE d \in DOMAIN Digits : Digits[d] = c) - 1
    ELSE -1

\* the number written in decimal by s, -1 when s is not a canonical numeral
RECURSIVE ParseNat(_)
ParseNat(s) ==
    IF s = "" THEN -1
    ELSE LET d == DigitValue(SubSeq(s, Len(s), Len(s)))
         IN  IF d < 0 THEN -1
             ELSE IF Len(s) = 1 THEN d
             ELSE LET hi == ParseNat(SubSeq(s, 1, Len(s) - 1))
                  IN  IF hi <= 0 THEN -1 ELSE 10 * hi + d

\* <<lo, hi>> of a token "n" or "lo-hi", <<>> when the token is neither
ParseToken(tok) ==
    LET k == FirstIndex(tok, "-")
    IN  IF k = 0
        THEN IF ParseNat(tok) >= 0 THEN <<ParseNat(tok), ParseNat(tok)>> ELSE <<>>
        ELSE LET lo == ParseNat(SubSeq(tok, 1, k - 1))
                 hi == ParseNat(SubSeq(tok, k + 1, Len(tok)))
             IN  IF lo >= 0 /\ hi >= 0 /\ lo < hi THEN <<lo, hi>> ELSE <<>>

\* the VLAN IDs that a token list stands for
TokenIds(tokens) ==
    UNION {IF ParseToken(tokens[k]) = <<>> THEN {}
           ELSE ParseToken(tokens[k])[1]..ParseToken(tokens[k])[2] : k \in DOMAIN tokens}

\* every token is an ID or a range lo-hi with lo < hi; tokens ascend, and
\* between two consecutive tokens at least one ID is left out
CompactTokens(tokens) ==
    /\ \A k \in DOMAIN tokens : ParseToken(tokens[k]) # <<>>
    /\ \A k \in 1..(Len(tokens) - 1) :
          ParseToken(tokens[k])[2] + 1 < ParseToken(tokens[k + 1])[1]

(***************************************************************************)
(* Properties of the range helpers                                          *)
(***************************************************************************)
VlanSet == {vlan_list[k] : k \in DOMAIN vlan_list}

\* C9: for a non-empty list of VLAN IDs, in any order and with duplicates,
\* both helpers produce tokens in strictly ascending order, each a single ID
\* or start-end with start < end, with maximal runs, that stand for exactly
\* the set of input IDs; for the empty list the trunk helper returns 1-4094
\* and the switch helper returns no token.
C9_RangeCompaction ==
    /\ trunk_range.called =>
          IF vlan_list = <<>> THEN trunk_range.value = "1-4094"
          ELSE LET tokens == Split(trunk_range.value, ",")
               IN  CompactTokens(tokens) /\ TokenIds(tokens) = VlanSet
    /\ switch_ranges.called =>
          IF vlan_list = <<>> THEN switch_ranges.value = <<>>
          ELSE CompactTokens(switch_ranges.value)
               /\ TokenIds(switch_ranges.value) = VlanSet

\* both helpers ran on an unsorted list with a repeated ID and produced a
\* range token and at least one more token
C9_Witness ==
    /\ trunk_range.called /\ switch_ranges.called
    /\ Len(vlan_list) > Cardinality(VlanSet)
    /\ \E k \in 1..(Len(vlan_list) - 1) : vlan_list[k] > vlan_list[k + 1]
    /\ Len(switch_ranges.value) >= 2
    /\ \E k \in DOMAIN switch_ranges.value : FirstIndex(switch_ranges.value[k], "-") > 0
    /\ FirstIndex(trunk_range.value, ",") > 0

(***************************************************************************)
(* Properties of AccessTemplate and TrunkTemplate rendering                 *)
(***************************************************************************)
\* the step is a call of generate_config
RenderStep == tmpl_renders' = tmpl_renders + 1

\* generate_config was called on the instance as it is now, and returned
Rendered == tmpl_renders > 0 /\ ~tmpl_out.raised

\* C6: for an AccessTemplate or TrunkTemplate whose interface list is
\* empty, every call of generate_config, the repeated ones included, returns
\* the empty sequence whatever the other fields hold, and leaves the
\* instance as it was.
C6_EmptyInterfaces ==
    [][ (RenderStep /\ tmpl.interfaces = <<>>) =>
          /\ tmpl_out' = Returned(<<>>)
          /\ tmpl' = tmpl
      ]_vars

\* generate_config was called twice on an instance without interfaces
\* whose other fields would make the rendering fail
C6_Witness ==
    /\ tmpl.interfaces = <<>>
    /\ tmpl_renders = 2
    /\ tmpl_out = Returned(<<>>)
    /\ tmpl_class = "AccessTemplate"
    /\ Access_raises(tmpl)

\* lines[k..] contains the wanted lines in this relative order, leading
\* blanks of the generated lines aside
RECURSIVE ContainsInOrder(_, _)
ContainsInOrder(lines, wanted) ==
    IF wanted = <<>> THEN TRUE
    ELSE IF lines = <<>> THEN FALSE
    ELSE IF LStrip(lines[1]) = wanted[1]
         THEN ContainsInOrder(Tail(lines), Tail(wanted))
         ELSE ContainsInOrder(Tail(lines), wanted)

AccessExample ==
    AccessTemplate(Append(AccessExampleKwargs,
                          <<"violation_action", PlainStr("restrict")>>))

\* C7: AccessTemplate(interfaces=["Gig1/0/1"], vlan_id=10,
\* port_security_enabled=True, max_mac_addresses=2,
\* violation_action="restrict") renders without error a sequence with the
\* lines vlan 10, interface range Gig1/0/1, switchport mode access,
\* switchport access vlan 10, switchport port-security, switchport
\* port-security maximum 2, switchport port-security violation restrict in
\* this relative order, and exit as last line.
C7_ExampleRenders ==
    (tmpl_class = "AccessTemplate" /\ tmpl = AccessExample /\ tmpl_renders > 0) =>
        /\ ~tmpl_out.raised
        /\ ContainsInOrder(tmpl_out.cfg,
              <<"vlan 10",
                "interface range Gig1/0/1",
                "switchport mode access",
                "switchport access vlan 10",
                "switchport port-security",
                "switchport port-security maximum 2",
                "switchport port-security violation restrict">>)
        /\ LStrip(tmpl_out.cfg[Len(tmpl_out.cfg)]) = "exit"

AllowedPrefix == " switchport trunk allowed vlan "

\* the VLAN IDs written on the allowed-VLAN lines of a rendering
AllowedIds(cfg) ==
    UNION {IF StartsWith(cfg[k], AllowedPrefix)
           THEN TokenIds(Split(After(cfg[k], AllowedPrefix), ","))
           ELSE {} : k \in DOMAIN cfg}

TrunkExample ==
    TrunkTemplate(<< <<"interfaces", <<"Gig1/0/23", "Gig1/0/24">> >>,
                     <<"allowed_vlans", <<10, 20, 21, 22>> >>,
                     <<"native_vlan", 1>> >>)

\* C8: for every TrunkTemplate with a non-empty interface list the VLAN set
\* written on the switchport trunk allowed vlan line contains native_vlan;
\* allowed_vlans=[10,20,21,22] with native_vlan=1 renders
\* switchport trunk allowed vlan 1,10,20-22.
C8_NativeInAllowed ==
    (tmpl_class = "TrunkTemplate" /\ Rendered /\ tmpl.interfaces # <<>>) =>
        /\ tmpl.native_vlan \in AllowedIds(tmpl_out.cfg)
        /\ tmpl = TrunkExample =>
              \E k \in DOMAIN tmpl_out.cfg :
                 LStrip(tmpl_out.cfg[k]) = "switchport trunk allowed vlan 1,10,20-22"

StormClasses == <<"broadcast", "multicast", "unknown-unicast">>

StormMin(self, class) ==
    IF class = "broadcast" THEN self.storm_control_broadcast_min
    ELSE IF class = "multicast" THEN self.storm_control_multicast_min
    ELSE self.storm_control_unknown_unicast_min

StormMax(self, class) ==
    IF class = "broadcast" THEN self.storm_control_broadcast_max
    ELSE IF class = "multicast" THEN self.storm_control_multicast_max
    ELSE self.storm_control_unknown_unicast_max

\* the words of a line "storm-control <class> level ...", <<>> for other lines
StormWords(line) ==
    LET words == Split(LStrip(line), " ")
    IN  IF /\ Len(words) >= 3
           /\ words[1] = "storm-control"
           /\ \E c \in DOMAIN StormClasses : StormClasses[c] = words[2]
           /\ words[3] = "level"
        THEN words ELSE <<>>

\* the storm-control level lines of a rendering, in their order
StormLevelLines(cfg) == SelectSeq(cfg, LAMBDA line : StormWords(line) # <<>>)

\* the traffic classes whose minimum threshold is set, in the fixed order
StormClassesSet(self) == SelectSeq(StormClasses, LAMBDA c : StormMin(self, c) # None)

\* C10: for an AccessTemplate or TrunkTemplate with a non-empty interface
\* list, a rendering holds exactly one storm-control <class> level line for
\* each traffic class whose minimum is set and none for the others, in the
\* order broadcast, multicast, unknown-unicast, each of the form
\* level <min> [<max>], and each ends in pps iff storm_control_unit_pps.
C10_StormLines ==
    (Rendered /\ tmpl.interfaces # <<>>) =>
        LET lines == StormLevelLines(tmpl_out.cfg)
            set   == StormClassesSet(tmpl)
        IN  /\ Len(lines) = Len(set)
            /\ \A k \in DOMAIN lines :
                  LET words == StormWords(lines[k])
                      mn    == StormMin(tmpl, set[k])
                      mx    == StormMax(tmpl, set[k])
                      n     == 4 + (IF mx # None THEN 1 ELSE 0)
                  IN  /\ words[2] = set[k]
                      /\ Len(words) >= n
                      /\ words[4] = FloatStr(mn[1])
                      /\ mx # None => words[5] = FloatStr(mx[1])
                      /\ EndsWith(lines[k], "pps") <=> tmpl.storm_control_unit_pps
                      /\ Len(words) = n + (IF tmpl.storm_control_unit_pps THEN 1 ELSE 0)
                      /\ tmpl.storm_control_unit_pps => words[Len(words)] = "pps"

\* a rendering with the pps unit, a broadcast line without maximum, a
\* multicast line with maximum and no unknown-unicast line
C10_Witness ==
    /\ Rendered /\ tmpl.interfaces # <<>>
    /\ tmpl.storm_control_unit_pps
    /\ tmpl.storm_control_broadcast_min # None
    /\ tmpl.storm_control_broadcast_max = None
    /\ tmpl.storm_control_multicast_min # None
    /\ tmpl.storm_control_multicast_max # None
    /\ tmpl.storm_control_unknown_unicast_min = None
    /\ Len(StormLevelLines(tmpl_out.cfg)) = 2


(***************************************************************************)
(* Block order and size of an AccessTemplate rendering                      *)
(***************************************************************************)
\* the block of the documented order a generated line belongs to, read from
\* its text and, for " exit", from its position (0: no block)
AccessBlockOf(cfg, i) ==
    LET l == cfg[i] IN
    IF StartsWith(l, "vlan ") \/ StartsWith(l, " name ") THEN 10
    ELSE IF l = " exit" THEN (IF i = Len(cfg) THEN 200 ELSE 10)
    ELSE IF StartsWith(l, "interface range ") THEN 20
    ELSE IF l = " switchport mode access"
            \/ StartsWith(l, " switchport access vlan ")
            \/ StartsWith(l, " description ") THEN 30
    ELSE IF StartsWith(l, " switchport voice vlan ") THEN 40
    ELSE IF StartsWith(l, " switchport private-vlan ")
            \/ l = " switchport protected" THEN 50
    ELSE IF StartsWith(l, " spanning-tree ") THEN 60
    ELSE IF StartsWith(l, " mls qos ") \/ StartsWith(l, " service-policy ")
            \/ l = " priority-queue out" \/ StartsWith(l, " shape average ")
            \/ StartsWith(l, " police ") \/ StartsWith(l, " authentication ")
            \/ StartsWith(l, " dot1x ") \/ l = " mab"
            \/ StartsWith(l, " web-auth") THEN 70
    ELSE IF StartsWith(l, " power inline ") THEN 80
    ELSE IF StartsWith(l, " storm-control ") THEN 90
    ELSE IF StartsWith(l, " speed ") \/ StartsWith(l, " duplex ")
            \/ l = " mdix auto" \/ l = " power efficient-ethernet auto"
            \/ StartsWith(l, " flowcontrol ") THEN 100
    ELSE IF l = " no cdp enable" \/ StartsWith(l, " no lldp ")
            \/ StartsWith(l, " load-interval ")
            \/ StartsWith(l, " udld port") THEN 110
    ELSE IF StartsWith(l, " errdisable timeout ") THEN 120
    ELSE IF StartsWith(l, " errdisable recovery cause ") THEN 121
    ELSE IF StartsWith(l, " ip dhcp ") \/ StartsWith(l, " ip arp inspection ")
         THEN 130
    ELSE IF l = " ip verify source" \/ StartsWith(l, " ipv6 ")
            \/ l = " device-tracking" THEN 140
    ELSE IF l = " switchport port-security" THEN 150
    ELSE IF StartsWith(l, " switchport port-security maximum ") THEN 151
    ELSE IF StartsWith(l, " switchport port-security violation ") THEN 152
    ELSE IF l = " switchport port-security mac-address sticky" THEN 153
    ELSE IF StartsWith(l, " switchport port-security mac-address ") THEN 154
    ELSE 0

AccessBlocks(cfg) == {AccessBlockOf(cfg, i) : i \in 1..Len(cfg)}

\* C11: the lines generate_config returns for an AccessTemplate with
\* interfaces follow the fixed block order (VLAN definition, interface
\* range header, mode and VLAN, voice VLAN, private VLAN and protected
\* port, spanning tree, QoS and NAC, PoE, storm control, physical layer,
\* CDP/LLDP negations, errdisable timeout then recovery causes, DHCP
\* snooping and ARP inspection, source guard and IPv6 security, port
\* security as enable, maximum, violation, sticky, explicit MACs, closing
\* exit): every line belongs to a block and no line of a later block
\* comes before a line of an earlier block.
C11_BlockOrder ==
    (tmpl_class = "AccessTemplate" /\ Rendered /\ tmpl.interfaces # <<>>) =>
        LET cfg == tmpl_out.cfg IN
        /\ \A i \in 1..Len(cfg) : AccessBlockOf(cfg, i) # 0
        /\ \A i \in 1..Len(cfg) : \A j \in 1..Len(cfg) :
              i < j => AccessBlockOf(cfg, i) <= AccessBlockOf(cfg, j)

\* a rendering with lines of the PoE, storm-control, physical, errdisable
\* and port-security blocks, the explicit MAC lines included
C11_Witness ==
    /\ tmpl_class = "AccessTemplate"
    /\ Rendered
    /\ {10, 20, 30, 40, 50, 60, 70, 80, 90, 100, 110, 120, 121, 130, 140,
        150, 151, 152, 153, 154, 200} \subseteq AccessBlocks(tmpl_out.cfg)

\* the boolean fields of the AccessTemplate dataclass
AccessBoolFields ==
    { "auto_mdix", "energy_efficient_ethernet", "port_security_enabled",
      "sticky_mac", "voice_vlan_dot1p", "voice_vlan_none",
      "spanning_tree_portfast", "spanning_tree_portfast_trunk", "bpdu_guard",
      "bpdu_filter", "loop_guard", "root_guard", "priority_queue_out",
      "authentication_open", "authentication_periodic", "mab", "dot1x",
      "webauth", "webauth_local", "poe_enabled", "storm_control_unit_pps",
      "private_vlan_host", "protected_port", "no_neighbor", "cdp_enabled",
      "lldp_transmit", "lldp_receive", "dhcp_snoop_trust",
      "arp_inspection_trust", "ip_source_guard", "udld_enable",
      "udld_aggressive", "flow_control_receive", "flow_control_send",
      "device_tracking", "ip_dhcp_relay_information", "ipv6_nd_inspection",
      "ipv6_ra_guard" }

EnabledFlags(self) == Cardinality({f \in AccessBoolFields : self[f]})

\* C12: for an AccessTemplate with interfaces, generate_config returns a
\* list that starts with the line vlan <vlan_id>, ends with the line exit
\* and has more lines than the instance has boolean fields set to true.
C12_FrameAndSize ==
    (tmpl_class = "AccessTemplate" /\ tmpl_renders > 0 /\ tmpl.interfaces # <<>>) =>
        /\ ~tmpl_out.raised
        /\ tmpl_out.cfg # <<>>
        /\ tmpl_out.cfg[1] = "vlan " \o Str(tmpl.vlan_id)
        /\ LStrip(tmpl_out.cfg[Len(tmpl_out.cfg)]) = "exit"
        /\ Len(tmpl_out.cfg) > EnabledFlags(tmpl)

(***************************************************************************)
(* The frame of a chassis configuration                                     *)
(***************************************************************************)
\* the positions of the line end in a configuration
EndLines(cfg) == {i \in DOMAIN cfg : cfg[i] = "end"}

\* C14: whenever generate_config of a SwitchTemplate or SwitchL3Template
\* returns, with or without nested templates, the list starts with the
\* lines enable, configure terminal, ends with the lines end, write memory,
\* and the line end stands at no other position.
C14_SingleEnd ==
    (tmpl_class \in {"SwitchTemplate", "SwitchL3Template"}
        /\ tmpl_renders > 0 /\ ~tmpl_out.raised) =>
        LET cfg == tmpl_out.cfg
        IN  /\ Len(cfg) >= 4
            /\ cfg[1] = "enable"
            /\ cfg[2] = "configure terminal"
            /\ cfg[Len(cfg) - 1] = "end"
            /\ cfg[Len(cfg)] = "write memory"
            /\ EndLines(cfg) = {Len(cfg) - 1}

(***************************************************************************)
(* Forms and the builders that turn a form into a template instance         *)
(***************************************************************************)
\* the value sets of the enums the builders convert widget texts to
PowerInlineMode == {"auto", "static", "never", "maximum", "perpetual-poe"}
ViolationAction == {"shutdown", "restrict", "protect"}
QoSTrustState == {"none", "cos", "dscp"}
EncapsulationType == {"dot1q", "isl"}
DTPMode == {"auto", "desirable", "on", "nonegotiate"}
ChannelMode == {"on", "active", "passive", "auto", "desirable"}
SpanningTreeMode == {"pvst", "rapid-pvst", "mst"}
VTPMode == {"server", "client", "transparent", "off"}

\* try: x = E(text)  except ValueError: pass   (x keeps its default)
Coerced(enum, text, default) == IF text \in enum THEN EnumMember(text) ELSE default

\* s.rstrip() and s.strip(), for blanks
RECURSIVE RStrip(_)
RStrip(s) == IF EndsWith(s, " ") THEN RStrip(SubSeq(s, 1, Len(s) - 1)) ELSE s

Strip(s) == RStrip(LStrip(s))

\* [s.strip() for s in text.split(",") if s.strip()]
SplitCsv(text) ==
    LET parts == Split(text, ",")
        stripped == [k \in DOMAIN parts |-> Strip(parts[k])]
    IN  SelectSeq(stripped, LAMBDA s : s # "")

\* s.isdigit(), for ASCII text
IsDigit(s) == s # "" /\ \A k \in 1..Len(s) : DigitValue(SubSeq(s, k, k)) >= 0

\* int(s) of a string of digits
RECURSIVE IntOfDigits(_)
IntOfDigits(s) ==
    IF s = "" THEN 0
    ELSE 10 * IntOfDigits(SubSeq(s, 1, Len(s) - 1)) + DigitValue(SubSeq(s, Len(s), Len(s)))

\* int(s) succeeds: blanks around an optional sign and digits
IntParses(s) ==
    LET t == Strip(s)
    IN  IsDigit(t) \/ (Len(t) > 1 /\ SubSeq(t, 1, 1) \in {"-", "+"} /\ IsDigit(Tail(t)))

\* int(s), when it succeeds
IntOf(s) ==
    LET t == Strip(s)
    IN  IF IsDigit(t) THEN IntOfDigits(t)
        ELSE IF SubSeq(t, 1, 1) = "-" THEN 0 - IntOfDigits(Tail(t))
        ELSE IntOfDigits(Tail(t))

\* [int(v.strip()) for v in text.split(",") if v.strip().isdigit()]
SplitVlanCsv(text) ==
    LET parts == Split(text, ",")
        stripped == [k \in DOMAIN parts |-> Strip(parts[k])]
        digits == SelectSeq(stripped, IsDigit)
    IN  [k \in DOMAIN digits |-> IntOfDigits(digits[k])]

\* text or None, value or None, value if value > 0 else None
StrOrNone(text) == IF text = "" THEN None ELSE Some(text)
IntOrNone(value) == IF value = 0 THEN None ELSE Some(value)
PositiveOrNone(value) == IF value > 0 THEN Some(value) ELSE None

\* hasattr(form, attr), _bool(form, attr)
HasAttr(form, attr) == attr \in DOMAIN form
Bool(form, attr) == IF HasAttr(form, attr) THEN form[attr] ELSE FALSE

\* what a builder hands back: an instance of a class, None, or an exception
Built(class, inst) == [kind |-> "instance", class |-> class, inst |-> inst]
BuiltNone == [kind |-> "none", class |-> "", inst |-> <<>>]
BuildRaised == [kind |-> "raised", class |-> "", inst |-> <<>>]

\* AccessTemplateForm(): the widgets and what they show after construction;
\* a double spin box holds tenths, a table the texts of its rows, a check
\* list the texts of its checked items
AccessTemplateForm_widgets ==
    [ color_picker |-> "#4287f5",
      mac_address_table |-> <<>>,
      authentication_order_list |-> <<"dot1x", "mab", "webauth">>,
      errdisable_recovery_list |-> <<>>,
      interfaces_input |-> "",
      vlan_id_input |-> 1,
      description_input |-> "",
      speed_combo |-> "auto",
      duplex_combo |-> "auto",
      auto_mdix_checkbox |-> FALSE,
      energy_efficient_ethernet_checkbox |-> FALSE,
      flow_control_receive_checkbox |-> FALSE,
      flow_control_send_checkbox |-> FALSE,
      cdp_enabled_checkbox |-> FALSE,
      lldp_transmit_checkbox |-> FALSE,
      lldp_receive_checkbox |-> FALSE,
      load_interval_input |-> 300,
      voice_vlan_input |-> 0,
      voice_vlan_dot1p_checkbox |-> FALSE,
      voice_vlan_none_checkbox |-> FALSE,
      spanning_tree_portfast_checkbox |-> FALSE,
      spanning_tree_portfast_trunk_checkbox |-> FALSE,
      bpdu_guard_checkbox |-> FALSE,
      bpdu_filter_checkbox |-> FALSE,
      loop_guard_checkbox |-> FALSE,
      root_guard_checkbox |-> FALSE,
      spanning_tree_link_type_combo |-> "default",
      port_security_checkbox |-> FALSE,
      max_mac_input |-> 1,
      violation_action_combo |-> "shutdown",
      sticky_mac_checkbox |-> FALSE,
      dot1x_checkbox |-> FALSE,
      mab_checkbox |-> FALSE,
      webauth_checkbox |-> FALSE,
      webauth_local_checkbox |-> FALSE,
      authentication_host_mode_combo |-> "single-host",
      authentication_open_checkbox |-> FALSE,
      authentication_periodic_checkbox |-> FALSE,
      authentication_timer_input |-> 3600,
      dhcp_snoop_trust_checkbox |-> FALSE,
      dhcp_snoop_rate_input |-> 0,
      arp_inspection_trust_checkbox |-> FALSE,
      arp_inspection_rate_input |-> 0,
      dhcp_relay_information_checkbox |-> FALSE,
      ip_source_guard_checkbox |-> FALSE,
      ipv6_nd_inspection_checkbox |-> FALSE,
      ipv6_ra_guard_checkbox |-> FALSE,
      device_tracking_checkbox |-> FALSE,
      qos_trust_combo |-> "--",
      qos_cos_override_input |-> 0,
      qos_dscp_override_input |-> 0,
      priority_queue_out_checkbox |-> FALSE,
      service_policy_input |-> "",
      service_policy_output_input |-> "",
      shape_average_input |-> 8000,
      police_rate_input |-> 8000,
      police_burst_input |-> 1000,
      errdisable_timeout_input |-> 0,
      storm_control_checkbox |-> FALSE,
      storm_unit_pps |-> FALSE,
      broadcast_min_input |-> 0,
      broadcast_max_input |-> 0,
      multicast_min_input |-> 0,
      multicast_max_input |-> 0,
      unknown_unicast_min_input |-> 0,
      unknown_unicast_max_input |-> 0,
      storm_control_action_combo |-> "--",
      udld_enable_checkbox |-> FALSE,
      udld_aggressive_checkbox |-> FALSE,
      poe_enabled_checkbox |-> FALSE,
      poe_inline_combo |-> "auto",
      poe_priority_combo |-> "low",
      poe_limit_input |-> 0,
      private_vlan_host_checkbox |-> FALSE,
      private_vlan_mapping_input |-> "",
      protected_port_checkbox |-> FALSE,
      no_neighbor_checkbox |-> FALSE ]

\* AccessTemplateForm.get_mac_addresses()
AccessForm_get_mac_addresses(form) ==
    LET stripped == [k \in DOMAIN form.mac_address_table |->
                        Strip(form.mac_address_table[k])]
    IN  SelectSeq(stripped, LAMBDA mac : mac # "")

\* AccessTemplateForm.get_authentication_order()
AccessForm_get_authentication_order(form) == form.authentication_order_list

\* AccessTemplateForm.get_errdisable_recovery_causes()
AccessForm_get_errdisable_recovery_causes(form) == form.errdisable_recovery_list

\* AccessTemplateForm.get_instance_data() raises ValueError: an enum
\* constructor is called on a text that is no value of the enum
AccessForm_get_instance_data_raises(form) ==
    \/ form.violation_action_combo \notin ViolationAction
    \/ form.qos_trust_combo # "--" /\ form.qos_trust_combo \notin QoSTrustState
    \/ form.poe_inline_combo \notin PowerInlineMode

\* AccessTemplateForm.get_instance_data(): the keyword arguments
AccessForm_get_instance_data(form) ==
    << <<"interfaces", SplitCsv(form.interfaces_input)>>,
       <<"vlan_id", form.vlan_id_input>>,
       <<"description", StrOrNone(form.description_input)>>,
       <<"color", Some(form.color_picker)>>,
       <<"speed", form.speed_combo>>,
       <<"duplex", form.duplex_combo>>,
       <<"auto_mdix", form.auto_mdix_checkbox>>,
       <<"energy_efficient_ethernet",
          form.energy_efficient_ethernet_checkbox>>,
       <<"flow_control_receive", form.flow_control_receive_checkbox>>,
       <<"flow_control_send", form.flow_control_send_checkbox>>,
       <<"cdp_enabled", form.cdp_enabled_checkbox>>,
       <<"lldp_transmit", form.lldp_transmit_checkbox>>,
       <<"lldp_receive", form.lldp_receive_checkbox>>,
       <<"load_interval", form.load_interval_input>>,
       <<"voice_vlan",
          IF form.voice_vlan_none_checkbox \/ form.voice_vlan_dot1p_checkbox
          THEN None ELSE IntOrNone(form.voice_vlan_input)>>,
       <<"voice_vlan_dot1p", form.voice_vlan_dot1p_checkbox>>,
       <<"voice_vlan_none", form.voice_vlan_none_checkbox>>,
       <<"spanning_tree_portfast", form.spanning_tree_portfast_checkbox>>,
       <<"spanning_tree_portfast_trunk",
          form.spanning_tree_portfast_trunk_checkbox>>,
       <<"bpdu_guard", form.bpdu_guard_checkbox>>,
       <<"bpdu_filter", form.bpdu_filter_checkbox>>,
       <<"loop_guard", form.loop_guard_checkbox>>,
       <<"root_guard", form.root_guard_checkbox>>,
       <<"spanning_tree_link_type",
          IF form.spanning_tree_link_type_combo = "default" THEN None ELSE Some(form.spanning_tree_link_type_combo)>>,
       <<"port_security_enabled", form.port_security_checkbox>>,
       <<"max_mac_addresses", form.max_mac_input>>,
       <<"violation_action", EnumMember(form.violation_action_combo)>>,
       <<"sticky_mac", form.sticky_mac_checkbox>>,
       <<"restricted_mac_addresses", AccessForm_get_mac_addresses(form)>>,
       <<"dot1x", form.dot1x_checkbox>>,
       <<"mab", form.mab_checkbox>>,
       <<"webauth", form.webauth_checkbox>>,
       <<"webauth_local", form.webauth_local_checkbox>>,
       <<"authentication_host_mode", form.authentication_host_mode_combo>>,
       <<"authentication_open", form.authentication_open_checkbox>>,
       <<"authentication_periodic", form.authentication_periodic_checkbox>>,
       <<"authentication_timer_reauthenticate",
          form.authentication_timer_input>>,
       <<"authentication_order",
          AccessForm_get_authentication_order(form)>>,
       <<"authentication_priority",
          AccessForm_get_authentication_order(form)>>,
       <<"dhcp_snoop_trust", form.dhcp_snoop_trust_checkbox>>,
       <<"dhcp_snoop_rate", IntOrNone(form.dhcp_snoop_rate_input)>>,
       <<"arp_inspection_trust", form.arp_inspection_trust_checkbox>>,
       <<"arp_inspection_rate", IntOrNone(form.arp_inspection_rate_input)>>,
       <<"ip_dhcp_relay_information",
          form.dhcp_relay_information_checkbox>>,
       <<"ip_source_guard", form.ip_source_guard_checkbox>>,
       <<"ipv6_nd_inspection", form.ipv6_nd_inspection_checkbox>>,
       <<"ipv6_ra_guard", form.ipv6_ra_guard_checkbox>>,
       <<"device_tracking", form.device_tracking_checkbox>>,
       <<"qos_trust",
          IF form.qos_trust_combo = "--" THEN None
          ELSE Some(EnumMember(form.qos_trust_combo))>>,
       <<"qos_cos_override", PositiveOrNone(form.qos_cos_override_input)>>,
       <<"qos_dscp_override",
          PositiveOrNone(form.qos_dscp_override_input)>>,
       <<"priority_queue_out", form.priority_queue_out_checkbox>>,
       <<"service_policy_input", StrOrNone(form.service_policy_input)>>,
       <<"service_policy_output",
          StrOrNone(form.service_policy_output_input)>>,
       <<"shape_average", PositiveOrNone(form.shape_average_input)>>,
       <<"police_rate", PositiveOrNone(form.police_rate_input)>>,
       <<"police_burst", PositiveOrNone(form.police_burst_input)>>,
       <<"errdisable_timeout", IntOrNone(form.errdisable_timeout_input)>>,
       <<"errdisable_recovery_cause",
          AccessForm_get_errdisable_recovery_causes(form)>>,
       <<"storm_control_broadcast_min",
          IF form.storm_control_checkbox THEN Some(form.broadcast_min_input) ELSE None>>,
       <<"storm_control_broadcast_max",
          IF form.storm_control_checkbox THEN Some(form.broadcast_max_input) ELSE None>>,
       <<"storm_control_multicast_min",
          IF form.storm_control_checkbox THEN Some(form.multicast_min_input) ELSE None>>,
       <<"storm_control_multicast_max",
          IF form.storm_control_checkbox THEN Some(form.multicast_max_input) ELSE None>>,
       <<"storm_control_unknown_unicast_min",
          IF form.storm_control_checkbox THEN Some(form.unknown_unicast_min_input) ELSE None>>,
       <<"storm_control_unknown_unicast_max",
          IF form.storm_control_checkbox THEN Some(form.unknown_unicast_max_input) ELSE None>>,
       <<"storm_control_unit_pps", form.storm_unit_pps>>,
       <<"storm_control_action",
          IF form.storm_control_action_combo = "--" THEN None ELSE Some(form.storm_control_action_combo)>>,
       <<"udld_enable", form.udld_enable_checkbox>>,
       <<"udld_aggressive", form.udld_aggressive_checkbox>>,
       <<"poe_enabled", form.poe_enabled_checkbox>>,
       <<"poe_inline", EnumMember(form.poe_inline_combo)>>,
       <<"poe_priority", form.poe_priority_combo>>,
       <<"poe_limit", IntOrNone(form.poe_limit_input)>>,
       <<"private_vlan_host", form.private_vlan_host_checkbox>>,
       <<"private_vlan_mapping",
          StrOrNone(form.private_vlan_mapping_input)>>,
       <<"protected_port", form.protected_port_checkbox>>,
       <<"no_neighbor", form.no_neighbor_checkbox>> >>

\* AccessTemplateForm.create_access_template()
AccessForm_create_access_template(form) ==
    IF AccessForm_get_instance_data_raises(form) THEN BuildRaised
    ELSE Built("AccessTemplate", AccessTemplate(AccessForm_get_instance_data(form)))

\* TrunkTemplateForm(): the widgets and what they show after construction
TrunkTemplateForm_widgets ==
    [ interfaces_input |-> "",
      allowed_vlans_input |-> "",
      native_vlan_input |-> 1,
      description_input |-> "",
      color_picker |-> "#4287f5",
      encapsulation_combo |-> "dot1q",
      dtp_mode_combo |-> "--",
      nonegotiate_checkbox |-> FALSE,
      portfast_checkbox |-> FALSE,
      pruning_checkbox |-> FALSE,
      stp_guard_checkbox |-> FALSE,
      dhcp_trust_checkbox |-> FALSE,
      qos_trust_combo |-> "--",
      storm_control_checkbox |-> FALSE,
      storm_unit_pps |-> FALSE,
      broadcast_min_input |-> 0,
      broadcast_max_input |-> 0,
      multicast_min_input |-> 0,
      multicast_max_input |-> 0,
      unknown_unicast_min_input |-> 0,
      unknown_unicast_max_input |-> 0,
      speed_combo |-> "auto",
      duplex_combo |-> "auto",
      auto_mdix_checkbox |-> FALSE,
      errdisable_timeout_input |-> 0,
      channel_group_input |-> 0,
      channel_mode_combo |-> "--" ]

\* value if the storm-control box is checked else None
StormValue(form, widget) ==
    IF Bool(form, "storm_control_checkbox") THEN Some(form[widget]) ELSE None

\* build_template_instance, ACCESS branch: the keyword arguments
build_access_kwargs(form) ==
    << <<"interfaces", SplitCsv(form.interfaces_input)>>,
       <<"vlan_id", form.vlan_id_input>>,
       <<"description", StrOrNone(form.description_input)>>,
       <<"color", IF HasAttr(form, "color_picker") THEN Some(form.color_picker)
                  ELSE Some("#4287f5")>>,
       <<"voice_vlan", IntOrNone(form.voice_vlan_input)>>,
       <<"port_security_enabled", Bool(form, "port_security_checkbox")>>,
       <<"max_mac_addresses", form.max_mac_input>>,
       <<"violation_action",
          IF HasAttr(form, "violation_action_combo")
          THEN Coerced(ViolationAction, form.violation_action_combo, EnumMember("shutdown"))
          ELSE EnumMember("shutdown")>>,
       <<"sticky_mac", Bool(form, "sticky_mac_checkbox")>>,
       <<"spanning_tree_portfast", Bool(form, "spanning_tree_portfast_checkbox")>>,
       <<"bpdu_guard", Bool(form, "bpdu_guard_checkbox")>>,
       <<"bpdu_filter", Bool(form, "bpdu_filter_checkbox")>>,
       <<"loop_guard", Bool(form, "loop_guard_checkbox")>>,
       <<"root_guard", Bool(form, "root_guard_checkbox")>>,
       <<"private_vlan_host", Bool(form, "private_vlan_host_checkbox")>>,
       <<"protected_port", Bool(form, "protected_port_checkbox")>>,
       <<"qos_trust",
          IF HasAttr(form, "qos_trust_combo") /\ form.qos_trust_combo # "--"
             /\ form.qos_trust_combo \in QoSTrustState
          THEN Some(EnumMember(form.qos_trust_combo))
          ELSE None>>,
       <<"service_policy_input", StrOrNone(form.service_policy_input)>>,
       <<"mab", Bool(form, "mab_checkbox")>>,
       <<"dot1x", Bool(form, "dot1x_checkbox")>>,
       <<"poe_inline",
          IF HasAttr(form, "poe_inline_combo")
          THEN Coerced(PowerInlineMode, form.poe_inline_combo, EnumMember("auto"))
          ELSE EnumMember("auto")>>,
       <<"poe_enabled", IF HasAttr(form, "poe_enabled_checkbox")
                        THEN Bool(form, "poe_enabled_checkbox") ELSE TRUE>>,
       <<"storm_control_broadcast_min", StormValue(form, "broadcast_min_input")>>,
       <<"storm_control_broadcast_max", StormValue(form, "broadcast_max_input")>>,
       <<"storm_control_multicast_min", StormValue(form, "multicast_min_input")>>,
       <<"storm_control_multicast_max", StormValue(form, "multicast_max_input")>>,
       <<"storm_control_unknown_unicast_min",
          StormValue(form, "unknown_unicast_min_input")>>,
       <<"storm_control_unknown_unicast_max",
          StormValue(form, "unknown_unicast_max_input")>>,
       <<"storm_control_unit_pps", Bool(form, "storm_unit_pps")>>,
       <<"speed", form.speed_combo>>,
       <<"duplex", form.duplex_combo>>,
       <<"auto_mdix", Bool(form, "auto_mdix_checkbox")>>,
       <<"errdisable_timeout", IF HasAttr(form, "errdisable_timeout_input")
                               THEN Some(form.errdisable_timeout_input) ELSE None>>,
       <<"dhcp_snoop_rate", IF HasAttr(form, "dhcp_snoop_rate_input")
                            THEN Some(form.dhcp_snoop_rate_input) ELSE None>>,
       <<"arp_inspection_rate", IF HasAttr(form, "arp_inspection_rate_input")
                                THEN Some(form.arp_inspection_rate_input) ELSE None>> >>

\* build_template_instance, TRUNK branch: the keyword arguments; the QoS
\* trust and the channel mode are handed over as the text of the combo box
build_trunk_kwargs(form) ==
    << <<"interfaces", SplitCsv(form.interfaces_input)>>,
       <<"allowed_vlans", SplitVlanCsv(form.allowed_vlans_input)>>,
       <<"native_vlan", form.native_vlan_input>>,
       <<"description", StrOrNone(form.description_input)>>,
       <<"pruning_enabled", Bool(form, "pruning_checkbox")>>,
       <<"spanning_tree_guard_root", Bool(form, "stp_guard_checkbox")>>,
       <<"encapsulation",
          IF HasAttr(form, "encapsulation_combo")
          THEN Coerced(EncapsulationType, form.encapsulation_combo, EnumMember("dot1q"))
          ELSE EnumMember("dot1q")>>,
       <<"dtp_mode",
          IF HasAttr(form, "dtp_mode_combo") /\ form.dtp_mode_combo # "--"
             /\ form.dtp_mode_combo \in DTPMode
          THEN Some(EnumMember(form.dtp_mode_combo))
          ELSE None>>,
       <<"nonegotiate", Bool(form, "nonegotiate_checkbox")>>,
       <<"spanning_tree_portfast", Bool(form, "portfast_checkbox")>>,
       <<"dhcp_snooping_trust", Bool(form, "dhcp_trust_checkbox")>>,
       <<"qos_trust", IF form.qos_trust_combo = "--" THEN None
                      ELSE Some(PlainStr(form.qos_trust_combo))>>,
       <<"storm_control_broadcast_min", StormValue(form, "broadcast_min_input")>>,
       <<"storm_control_broadcast_max", StormValue(form, "broadcast_max_input")>>,
       <<"storm_control_multicast_min", StormValue(form, "multicast_min_input")>>,
       <<"storm_control_multicast_max", StormValue(form, "multicast_max_input")>>,
       <<"storm_control_unknown_unicast_min",
          StormValue(form, "unknown_unicast_min_input")>>,
       <<"storm_control_unknown_unicast_max",
          StormValue(form, "unknown_unicast_max_input")>>,
       <<"storm_control_unit_pps", Bool(form, "storm_unit_pps")>>,
       <<"speed", form.speed_combo>>,
       <<"duplex", form.duplex_combo>>,
       <<"auto_mdix", Bool(form, "auto_mdix_checkbox")>>,
       <<"errdisable_timeout", IntOrNone(form.errdisable_timeout_input)>>,
       <<"channel_group", IntOrNone(form.channel_group_input)>>,
       <<"channel_group_mode", IF form.channel_mode_combo = "--" THEN None
                               ELSE Some(PlainStr(form.channel_mode_combo))>> >>

\* SwitchL2TemplateForm(): the widgets build_template_instance reads, and
\* what they show after construction; a table row is <<id text, name text>>
SwitchTemplateForm_widgets ==
    [ hostname_input |-> "",
      manager_vlan_id_combo |-> "",
      manager_ip_input |-> "",
      default_gateway_input |-> "",
      vlan_table |-> <<>>,
      vtp_mode_combo |-> "off",
      vtp_domain_input |-> "",
      spanning_tree_mode_combo |-> "pvst" ]

\* SwitchL3TemplateForm(): the base class leaves no tabs attribute, so the
\* constructor makes the basic widgets anew (_create_base_tabs) and then
\* its own; of the L3 widgets the two routing check boxes and the SVI
\* table are kept
SwitchL3TemplateForm_widgets ==
    [ hostname_input |-> "",
      manager_vlan_id_combo |-> "1",
      manager_ip_input |-> "",
      default_gateway_input |-> "",
      vlan_table |-> <<>>,
      vtp_mode_combo |-> SwitchTemplateForm_widgets.vtp_mode_combo,
      vtp_domain_input |-> SwitchTemplateForm_widgets.vtp_domain_input,
      spanning_tree_mode_combo |-> SwitchTemplateForm_widgets.spanning_tree_mode_combo,
      svi_table |-> <<>>,
      routing_enabled_checkbox |-> FALSE,
      ipv6_routing_checkbox |-> FALSE ]

\* RouterTemplateForm(): the widgets and what they show after construction
RouterTemplateForm_widgets ==
    [ hostname_input |-> "",
      interface_name_input |-> "",
      interface_ip_input |-> "",
      interface_mask_input |-> "",
      routing_protocols_input |-> "",
      static_routes_input |-> "" ]

\* the VLAN objects build_template_instance makes of the rows of the VLAN
\* table: a row whose ID text is no integer is skipped
RECURSIVE build_vlans(_)
build_vlans(rows) ==
    IF rows = <<>> THEN <<>>
    ELSE (IF IntParses(Head(rows)[1])
          THEN << VLAN(IntOf(Head(rows)[1]), Some(Head(rows)[2])) >>
          ELSE <<>>)
         \o build_vlans(Tail(rows))

\* build_template_instance, first device branch: the keyword arguments
build_switch_kwargs(form) ==
    << <<"hostname", IF form.hostname_input = "" THEN "Switch" ELSE form.hostname_input>>,
       <<"vlans", IF HasAttr(form, "vlan_table") THEN build_vlans(form.vlan_table) ELSE <<>> >>,
       <<"spanning_tree_mode",
          IF HasAttr(form, "spanning_tree_mode_combo")
          THEN Coerced(SpanningTreeMode, form.spanning_tree_mode_combo,
                       EnumMember("rapid-pvst"))
          ELSE EnumMember("rapid-pvst")>>,
       <<"manager_vlan_id", IntOf(form.manager_vlan_id_combo)>>,
       <<"manager_ip", Strip(form.manager_ip_input)>>,
       <<"default_gateway", Strip(form.default_gateway_input)>>,
       <<"vtp_mode",
          IF HasAttr(form, "vtp_mode_combo")
          THEN Coerced(VTPMode, form.vtp_mode_combo, EnumMember("off"))
          ELSE EnumMember("off")>>,
       <<"vtp_domain", IF HasAttr(form, "vtp_domain_input")
                       THEN Some(form.vtp_domain_input) ELSE None>> >>

\* SwitchL3TemplateForm.create_switch_l3_template, for the widgets kept
build_switch_l3_kwargs(form) ==
    << <<"hostname", IF form.hostname_input = "" THEN "Switch" ELSE form.hostname_input>>,
       <<"vlans", build_vlans(form.vlan_table)>>,
       <<"manager_vlan_id", IF form.manager_vlan_id_combo = "" THEN 1
                            ELSE IntOf(form.manager_vlan_id_combo)>>,
       <<"manager_ip", Strip(form.manager_ip_input)>>,
       <<"default_gateway", Strip(form.default_gateway_input)>>,
       <<"ip_routing", form.routing_enabled_checkbox>>,
       <<"ipv6_routing", form.ipv6_routing_checkbox>> >>

\* build_template_instance(form): the branch is chosen by the attributes
\* the form has, the branches being tried in the order of the source; a
\* form of no branch gives None
build_template_instance(form) ==
    IF HasAttr(form, "interfaces_input") /\ HasAttr(form, "vlan_id_input")
    THEN Built("AccessTemplate", AccessTemplate(build_access_kwargs(form)))
    ELSE IF HasAttr(form, "native_vlan_input")
    THEN Built("TrunkTemplate", TrunkTemplate(build_trunk_kwargs(form)))
    ELSE IF HasAttr(form, "hostname_input") /\ HasAttr(form, "manager_vlan_id_combo")
    THEN IF IntParses(form.manager_vlan_id_combo)
         THEN Built("SwitchTemplate", SwitchTemplate(build_switch_kwargs(form)))
         ELSE BuildRaised
    ELSE IF HasAttr(form, "hostname_input") /\ HasAttr(form, "routing_enabled_checkbox")
            /\ HasAttr(form, "svi_table")
    THEN IF form.manager_vlan_id_combo = "" \/ IntParses(form.manager_vlan_id_combo)
         THEN Built("SwitchL3Template", SwitchL3Template(build_switch_l3_kwargs(form)))
         ELSE BuildRaised
    ELSE BuiltNone

\* NewTemplateArea.get_full_template_instance, TrunkTemplateForm branch: the
\* keyword arguments; encapsulation and DTP mode are the texts of the boxes
full_trunk_kwargs(form) ==
    << <<"interfaces", SplitCsv(form.interfaces_input)>>,
       <<"allowed_vlans", SplitVlanCsv(form.allowed_vlans_input)>>,
       <<"native_vlan", form.native_vlan_input>>,
       <<"description", StrOrNone(form.description_input)>>,
       <<"pruning_enabled", form.pruning_checkbox>>,
       <<"spanning_tree_guard_root", form.stp_guard_checkbox>>,
       <<"encapsulation", PlainStr(form.encapsulation_combo)>>,
       <<"dtp_mode", IF form.dtp_mode_combo = "--" THEN None
                     ELSE Some(PlainStr(form.dtp_mode_combo))>>,
       <<"nonegotiate", form.nonegotiate_checkbox>>,
       <<"spanning_tree_portfast", form.portfast_checkbox>> >>

\* NewTemplateArea.get_full_template_instance(), on the form of the wizard
get_full_template_instance(form_class, form) ==
    IF form_class = "AccessTemplateForm" THEN AccessForm_create_access_template(form)
    ELSE IF form_class = "TrunkTemplateForm"
    THEN Built("TrunkTemplate", TrunkTemplate(full_trunk_kwargs(form)))
    ELSE BuiltNone

\* the items of the combo boxes of an AccessTemplateForm
AccessComboItems ==
    [ speed_combo |-> {"auto", "10", "100", "1000", "10000"},
      duplex_combo |-> {"auto", "half", "full"},
      spanning_tree_link_type_combo |-> {"default", "point-to-point", "shared"},
      violation_action_combo |-> {"shutdown", "restrict", "protect"},
      authentication_host_mode_combo |->
          {"single-host", "multi-auth", "multi-domain", "multi-host"},
      qos_trust_combo |-> {"--", "cos", "dscp"},
      storm_control_action_combo |-> {"--", "shutdown", "trap"},
      poe_inline_combo |-> {"auto", "static", "never", "maximum", "perpetual-poe"},
      poe_priority_combo |-> {"low", "medium", "high", "critical"} ]

\* the items of the combo boxes of a TrunkTemplateForm
TrunkComboItems ==
    [ encapsulation_combo |-> {"dot1q", "isl"},
      dtp_mode_combo |-> {"--", "auto", "desirable"},
      qos_trust_combo |-> {"--", "cos", "dscp"},
      speed_combo |-> {"auto", "10", "100", "1000"},
      duplex_combo |-> {"auto", "half", "full"},
      channel_mode_combo |-> {"--", "on", "active", "passive"} ]

ComboItems ==
    [AccessTemplateForm |-> AccessComboItems, TrunkTemplateForm |-> TrunkComboItems]

\* every combo box of the port form shows one of its items, as it does in a
\* form the user fills in by selecting
Selectable(class, widgets) ==
    class \in DOMAIN ComboItems /\
    \A w \in DOMAIN ComboItems[class] : widgets[w] \in ComboItems[class][w]

\* a text that is no item of any combo box and no value of any enum
LegacyText == "legacy"

\* the values a widget is set to, for the widgets that are edited
WidgetValues ==
    [ AccessTemplateForm |->
        [ interfaces_input |-> {"", "Gig1/0/1", " Gig1/0/1 ,, Gig1/0/2"},
          vlan_id_input |-> {1, 10},
          description_input |-> {"", "users"},
          voice_vlan_input |-> {0, 20},
          port_security_checkbox |-> BOOLEAN,
          violation_action_combo |-> {"shutdown", "restrict", "protect", LegacyText},
          qos_trust_combo |-> {"--", "cos", "dscp", "none", LegacyText},
          poe_enabled_checkbox |-> BOOLEAN,
          poe_inline_combo |-> {"auto", "never", LegacyText},
          storm_control_checkbox |-> BOOLEAN,
          broadcast_min_input |-> {0, 105},
          mac_address_table |-> {<<>>, <<"0011.2233.4455", "  ">>} ],
      TrunkTemplateForm |->
        [ interfaces_input |-> {"", "Gig1/0/23", "Gig1/0/23,Gig1/0/24"},
          allowed_vlans_input |-> {"", "10,20", "10, x ,020"},
          native_vlan_input |-> {1, 99},
          encapsulation_combo |-> {"dot1q", "isl", LegacyText},
          dtp_mode_combo |-> {"--", "auto", "desirable", LegacyText},
          nonegotiate_checkbox |-> BOOLEAN,
          qos_trust_combo |-> {"--", "cos", "dscp", LegacyText},
          storm_control_checkbox |-> BOOLEAN,
          multicast_max_input |-> {0, 755},
          channel_group_input |-> {0, 1},
          channel_mode_combo |-> {"--", "on", "active", LegacyText} ],
      SwitchTemplateForm |->
        [ hostname_input |-> {"", "SW1"},
          manager_vlan_id_combo |-> {"", "1", "10"},
          manager_ip_input |-> {"", " 10.0.0.2 255.255.255.0 "},
          vlan_table |-> { <<>>,
                           << <<"1", "VLAN1">> >>,
                           << <<"1", "VLAN1">>, <<"10", "VLAN10">> >>,
                           << <<"1", "VLAN1">>, <<" 10 ", "users">>, <<"x", "VLAN7">> >> },
          vtp_mode_combo |-> {"off", "server", "client", "transparent", LegacyText},
          vtp_domain_input |-> {"", "LAB"},
          spanning_tree_mode_combo |-> {"pvst", "rapid-pvst", "mst", LegacyText} ],
      RouterTemplateForm |->
        [ hostname_input |-> {"", "R1"} ] ]

\* TrunkTemplateForm._ensure_native, connected to valueChanged of the
\* native VLAN box: the native VLAN joins the allowed VLANs text
Trunk_ensure_native(widgets) ==
    LET native == Str(widgets.native_vlan_input)
        csv == SplitCsv(widgets.allowed_vlans_input)
    IN  IF \E k \in DOMAIN csv : csv[k] = native THEN widgets
        ELSE [widgets EXCEPT !.allowed_vlans_input = Join(",", Append(csv, native))]

\* the widgets after the user sets widget w to the value v
SetWidget(class, widgets, w, v) ==
    LET set == [widgets EXCEPT ![w] = v]
    IN  IF class = "TrunkTemplateForm" /\ w = "native_vlan_input"
           /\ v # widgets.native_vlan_input
        THEN Trunk_ensure_native(set)
        ELSE set

\* an Access form filled in: port security, QoS trust and storm control on
AccessFormFilled ==
    [AccessTemplateForm_widgets EXCEPT
        !.interfaces_input = "Gig1/0/1,Gig1/0/2",
        !.vlan_id_input = 10,
        !.description_input = "users",
        !.port_security_checkbox = TRUE,
        !.max_mac_input = 2,
        !.violation_action_combo = "restrict",
        !.qos_trust_combo = "cos",
        !.poe_enabled_checkbox = TRUE,
        !.poe_inline_combo = "static",
        !.storm_control_checkbox = TRUE,
        !.broadcast_min_input = 105,
        !.cdp_enabled_checkbox = TRUE,
        !.errdisable_recovery_list = <<"bpduguard">>,
        !.errdisable_timeout_input = 300]

\* a Trunk form filled in: an uplink bundle with DTP and storm control
TrunkFormFilled ==
    [TrunkTemplateForm_widgets EXCEPT
        !.interfaces_input = "Gig1/0/23,Gig1/0/24",
        !.allowed_vlans_input = "10,20,1",
        !.description_input = "uplink",
        !.dtp_mode_combo = "desirable",
        !.channel_group_input = 1,
        !.storm_control_checkbox = TRUE,
        !.multicast_max_input = 755]

\* a Trunk form with interfaces and nothing else filled in
TrunkFormPlain ==
    [TrunkTemplateForm_widgets EXCEPT !.interfaces_input = "Gig1/0/23"]

\* a device form as it shows a switch with VLANs 1 and 10
SwitchFormFilled ==
    [SwitchTemplateForm_widgets EXCEPT
        !.hostname_input = "SW1",
        !.manager_vlan_id_combo = "1",
        !.manager_ip_input = "192.168.1.1 255.255.255.0",
        !.default_gateway_input = "192.168.1.254",
        !.vlan_table = << <<"1", "VLAN1">>, <<"10", "VLAN10">> >>,
        !.spanning_tree_mode_combo = "rapid-pvst"]

\* the forms a behaviour starts from, each with its class
FormStates ==
    { <<"AccessTemplateForm", AccessTemplateForm_widgets>>,
      <<"AccessTemplateForm", AccessFormFilled>>,
      <<"TrunkTemplateForm", TrunkTemplateForm_widgets>>,
      <<"TrunkTemplateForm", TrunkFormPlain>>,
      <<"TrunkTemplateForm", TrunkFormFilled>>,
      <<"SwitchTemplateForm", SwitchTemplateForm_widgets>>,
      <<"SwitchTemplateForm", SwitchFormFilled>>,
      <<"RouterTemplateForm", RouterTemplateForm_widgets>> }

\* no builder was called on the form as it is
NotBuilt == [kind |-> "", class |-> "", inst |-> <<>>]

BuilderInit ==
    /\ \E fs \in FormStates : current_form_class = fs[1] /\ current_form = fs[2]
    /\ form_edits = 0
    /\ build = NotBuilt
    /\ built_by = ""
    /\ TemplateIdle

\* the user changes one widget of the form
FormSetWidget ==
    /\ form_edits < MaxFormEdits
    /\ \E w \in DOMAIN WidgetValues[current_form_class] :
          \E v \in WidgetValues[current_form_class][w] :
              current_form' = SetWidget(current_form_class, current_form, w, v)
    /\ form_edits' = form_edits + 1
    /\ build' = NotBuilt
    /\ built_by' = ""
    /\ UNCHANGED current_form_class
    /\ UNCHANGED form_others

\* the instance a builder returned becomes the template at hand
Install(result) ==
    IF result.kind = "instance"
    THEN /\ tmpl_class' = result.class
         /\ tmpl' = result.inst
         /\ tmpl_edits' = 0
         /\ tmpl_renders' = 0
         /\ tmpl_out' = NotCalled
    ELSE UNCHANGED tmpl_vars

\* instance = build_template_instance(form)
BuildTemplateInstance ==
    /\ build' = build_template_instance(current_form)
    /\ built_by' = "build_template_instance"
    /\ Install(build_template_instance(current_form))
    /\ UNCHANGED <<current_form_class, current_form, form_edits>>
    /\ UNCHANGED builder_others

\* instance = new_template_area.get_full_template_instance()
GetFullTemplateInstance ==
    /\ current_form_class \in {"AccessTemplateForm", "TrunkTemplateForm"}
    /\ build' = get_full_template_instance(current_form_class, current_form)
    /\ built_by' = "get_full_template_instance"
    /\ Install(get_full_template_instance(current_form_class, current_form))
    /\ UNCHANGED <<current_form_class, current_form, form_edits>>
    /\ UNCHANGED builder_others

BuilderNext ==
    \/ FormSetWidget
    \/ BuildTemplateInstance
    \/ GetFullTemplateInstance
    \/ AccessGenerateConfig
    \/ TrunkGenerateConfig
    \/ SwitchGenerateConfig


InitBuilder == BuilderInit /\ IAMIdle /\ RangeIdle /\ ChassisIdle /\ PageIdle /\ NameIdle /\ NavIdle

SpecBuilder == InitBuilder /\ [][BuilderNext]_vars

(***************************************************************************)
(* Loading an instance into a form                                          *)
(***************************************************************************)
\* QSpinBox.setValue: the value is brought into the range of the box
SetValue(lo, hi, v) == IF v < lo THEN lo ELSE IF v > hi THEN hi ELSE v

\* QComboBox.setCurrentText on a combo box that is not editable: a text
\* that is no item leaves the selection as it is
SetCurrentText(items, shown, text) == IF text \in items THEN text ELSE shown

\* x or 0, x or "", bool(x) for an Optional number
OrZero(opt) == IF opt = None THEN 0 ELSE opt[1]
OrEmpty(opt) == IF opt = None THEN "" ELSE opt[1]
Truthy(opt) == opt # None /\ opt[1] # 0

\* the text of an enum member, and str() of a plain string
EnumText(e) == e.value

\* the largest value a QDoubleSpinBox with its default range shows, in
\* tenths (99.99 is shown for every larger value)
DoubleSpinMax == 999

\* the causes the errdisable recovery list of an Access form offers
ErrdisableCauses ==
    << "all", "arp-inspection", "bpduguard", "channel-misconfig",
       "dhcp-rate-limit", "dtp-flap", "l2ptguard", "link-flap",
       "pagp-flap", "psecure-violation", "security-violation",
       "storm-control", "udld" >>

\* any([...]) over the six storm-control levels of an instance
StormAny(inst) ==
    \/ Truthy(inst.storm_control_broadcast_min)
    \/ Truthy(inst.storm_control_broadcast_max)
    \/ Truthy(inst.storm_control_multicast_min)
    \/ Truthy(inst.storm_control_multicast_max)
    \/ Truthy(inst.storm_control_unknown_unicast_min)
    \/ Truthy(inst.storm_control_unknown_unicast_max)

\* AccessTemplateForm().load_from_instance(inst): the widgets of a new
\* form after the load
AccessForm_load_from_instance(inst) ==
    LET w == AccessTemplateForm_widgets
        items == AccessComboItems
    IN  [ w EXCEPT
          !.interfaces_input = Join(",", inst.interfaces),
          !.vlan_id_input = SetValue(1, 4094, inst.vlan_id),
          !.description_input = OrEmpty(inst.description),
          !.color_picker = IF inst.color # None /\ inst.color[1] # ""
                           THEN inst.color[1] ELSE @,
          !.speed_combo = SetCurrentText(items.speed_combo, @, inst.speed),
          !.duplex_combo = SetCurrentText(items.duplex_combo, @, inst.duplex),
          !.auto_mdix_checkbox = inst.auto_mdix,
          !.energy_efficient_ethernet_checkbox = inst.energy_efficient_ethernet,
          !.flow_control_receive_checkbox = inst.flow_control_receive,
          !.flow_control_send_checkbox = inst.flow_control_send,
          !.cdp_enabled_checkbox = inst.cdp_enabled,
          !.lldp_transmit_checkbox = inst.lldp_transmit,
          !.lldp_receive_checkbox = inst.lldp_receive,
          !.load_interval_input = SetValue(30, 600, inst.load_interval),
          !.voice_vlan_none_checkbox = IF inst.voice_vlan_none THEN TRUE ELSE @,
          !.voice_vlan_dot1p_checkbox =
              IF ~inst.voice_vlan_none /\ inst.voice_vlan_dot1p THEN TRUE ELSE @,
          !.voice_vlan_input =
              IF ~inst.voice_vlan_none /\ ~inst.voice_vlan_dot1p
                 /\ Truthy(inst.voice_vlan)
              THEN SetValue(0, 4094, inst.voice_vlan[1]) ELSE @,
          !.spanning_tree_portfast_checkbox = inst.spanning_tree_portfast,
          !.spanning_tree_portfast_trunk_checkbox = inst.spanning_tree_portfast_trunk,
          !.bpdu_guard_checkbox = inst.bpdu_guard,
          !.bpdu_filter_checkbox = inst.bpdu_filter,
          !.loop_guard_checkbox = inst.loop_guard,
          !.root_guard_checkbox = inst.root_guard,
          !.spanning_tree_link_type_combo =
              IF inst.spanning_tree_link_type # None
                 /\ inst.spanning_tree_link_type[1] # ""
              THEN SetCurrentText(items.spanning_tree_link_type_combo, @,
                                  inst.spanning_tree_link_type[1])
              ELSE @,
          !.port_security_checkbox = inst.port_security_enabled,
          !.max_mac_input = SetValue(1, 132, inst.max_mac_addresses),
          !.violation_action_combo =
              SetCurrentText(items.violation_action_combo, @,
                             EnumText(inst.violation_action)),
          !.sticky_mac_checkbox = inst.sticky_mac,
          !.mac_address_table = inst.restricted_mac_addresses,
          !.dot1x_checkbox = inst.dot1x,
          !.mab_checkbox = inst.mab,
          !.webauth_checkbox = inst.webauth,
          !.webauth_local_checkbox = inst.webauth_local,
          !.authentication_host_mode_combo =
              SetCurrentText(items.authentication_host_mode_combo, @,
                             inst.authentication_host_mode),
          !.authentication_open_checkbox = inst.authentication_open,
          !.authentication_periodic_checkbox = inst.authentication_periodic,
          !.authentication_timer_input =
              SetValue(1, 65535, inst.authentication_timer_reauthenticate),
          !.dhcp_snoop_trust_checkbox = inst.dhcp_snoop_trust,
          !.dhcp_snoop_rate_input = SetValue(0, 4096, OrZero(inst.dhcp_snoop_rate)),
          !.arp_inspection_trust_checkbox = inst.arp_inspection_trust,
          !.arp_inspection_rate_input =
              SetValue(0, 4096, OrZero(inst.arp_inspection_rate)),
          !.dhcp_relay_information_checkbox = inst.ip_dhcp_relay_information,
          !.ip_source_guard_checkbox = inst.ip_source_guard,
          !.ipv6_nd_inspection_checkbox = inst.ipv6_nd_inspection,
          !.ipv6_ra_guard_checkbox = inst.ipv6_ra_guard,
          !.device_tracking_checkbox = inst.device_tracking,
          !.qos_trust_combo =
              IF inst.qos_trust # None /\ EnumText(inst.qos_trust[1]) # ""
              THEN SetCurrentText(items.qos_trust_combo, @,
                                  EnumText(inst.qos_trust[1]))
              ELSE SetCurrentText(items.qos_trust_combo, @, "--"),
          !.qos_cos_override_input =
              IF inst.qos_cos_override # None
              THEN SetValue(0, 7, inst.qos_cos_override[1]) ELSE @,
          !.qos_dscp_override_input =
              IF inst.qos_dscp_override # None
              THEN SetValue(0, 63, inst.qos_dscp_override[1]) ELSE @,
          !.priority_queue_out_checkbox = inst.priority_queue_out,
          !.service_policy_input = OrEmpty(inst.service_policy_input),
          !.service_policy_output_input = OrEmpty(inst.service_policy_output),
          !.shape_average_input =
              IF Truthy(inst.shape_average)
              THEN SetValue(8000, 1000000000, inst.shape_average[1]) ELSE @,
          !.police_rate_input =
              IF Truthy(inst.police_rate)
              THEN SetValue(8000, 1000000000, inst.police_rate[1]) ELSE @,
          !.police_burst_input =
              IF Truthy(inst.police_burst)
              THEN SetValue(1000, 512000000, inst.police_burst[1]) ELSE @,
          !.errdisable_timeout_input =
              SetValue(0, 86400, OrZero(inst.errdisable_timeout)),
          !.errdisable_recovery_list =
              SelectSeq(ErrdisableCauses,
                        LAMBDA cause : \E k \in DOMAIN inst.errdisable_recovery_cause :
                                           inst.errdisable_recovery_cause[k] = cause),
          !.storm_control_checkbox = StormAny(inst),
          !.storm_unit_pps = inst.storm_control_unit_pps,
          !.broadcast_min_input =
              SetValue(0, DoubleSpinMax, OrZero(inst.storm_control_broadcast_min)),
          !.broadcast_max_input =
              SetValue(0, DoubleSpinMax, OrZero(inst.storm_control_broadcast_max)),
          !.multicast_min_input =
              SetValue(0, DoubleSpinMax, OrZero(inst.storm_control_multicast_min)),
          !.multicast_max_input =
              SetValue(0, DoubleSpinMax, OrZero(inst.storm_control_multicast_max)),
          !.unknown_unicast_min_input =
              SetValue(0, DoubleSpinMax, OrZero(inst.storm_control_unknown_unicast_min)),
          !.unknown_unicast_max_input =
              SetValue(0, DoubleSpinMax, OrZero(inst.storm_control_unknown_unicast_max)),
          !.storm_control_action_combo =
              IF inst.storm_control_action # None /\ inst.storm_control_action[1] # ""
              THEN SetCurrentText(items.storm_control_action_combo, @,
                                  inst.storm_control_action[1])
              ELSE @,
          !.udld_enable_checkbox = inst.udld_enable,
          !.udld_aggressive_checkbox = inst.udld_aggressive,
          !.poe_enabled_checkbox = inst.poe_enabled,
          !.poe_inline_combo =
              SetCurrentText(items.poe_inline_combo, @, EnumText(inst.poe_inline)),
          !.poe_priority_combo =
              SetCurrentText(items.poe_priority_combo, @, inst.poe_priority),
          !.poe_limit_input =
              IF Truthy(inst.poe_limit)
              THEN SetValue(0, 60000, inst.poe_limit[1]) ELSE @,
          !.private_vlan_host_checkbox = inst.private_vlan_host,
          !.private_vlan_mapping_input = OrEmpty(inst.private_vlan_mapping),
          !.protected_port_checkbox = inst.protected_port,
          !.no_neighbor_checkbox = inst.no_neighbor ]

\* TrunkTemplateForm().load_from_instance(inst); a TrunkTemplate has no
\* color, so the color picker is left alone
TrunkForm_load_from_instance(inst) ==
    LET w == TrunkTemplateForm_widgets
        items == TrunkComboItems
        native == SetValue(1, 4094, inst.native_vlan)
        loaded ==
          [ w EXCEPT
            !.interfaces_input = Join(",", inst.interfaces),
            !.allowed_vlans_input =
                Join(",", [k \in DOMAIN inst.allowed_vlans |-> Str(inst.allowed_vlans[k])]),
            !.native_vlan_input = native ]
        ensured == IF native # w.native_vlan_input
                   THEN Trunk_ensure_native(loaded) ELSE loaded
    IN  [ ensured EXCEPT
          !.description_input = OrEmpty(inst.description),
          !.pruning_checkbox = inst.pruning_enabled,
          !.stp_guard_checkbox = inst.spanning_tree_guard_root,
          !.encapsulation_combo =
              SetCurrentText(items.encapsulation_combo, @, EnumText(inst.encapsulation)),
          !.dtp_mode_combo =
              SetCurrentText(items.dtp_mode_combo, @,
                             IF inst.dtp_mode = None \/ EnumText(inst.dtp_mode[1]) = ""
                             THEN "--" ELSE EnumText(inst.dtp_mode[1])),
          !.nonegotiate_checkbox = inst.nonegotiate,
          !.portfast_checkbox = inst.spanning_tree_portfast,
          !.dhcp_trust_checkbox = inst.dhcp_snooping_trust,
          !.qos_trust_combo =
              SetCurrentText(items.qos_trust_combo, @,
                             IF inst.qos_trust = None \/ EnumText(inst.qos_trust[1]) = ""
                             THEN "--" ELSE EnumText(inst.qos_trust[1])),
          !.storm_control_checkbox = StormAny(inst),
          !.storm_unit_pps = inst.storm_control_unit_pps,
          !.broadcast_min_input =
              SetValue(0, DoubleSpinMax, OrZero(inst.storm_control_broadcast_min)),
          !.broadcast_max_input =
              SetValue(0, DoubleSpinMax, OrZero(inst.storm_control_broadcast_max)),
          !.multicast_min_input =
              SetValue(0, DoubleSpinMax, OrZero(inst.storm_control_multicast_min)),
          !.multicast_max_input =
              SetValue(0, DoubleSpinMax, OrZero(inst.storm_control_multicast_max)),
          !.unknown_unicast_min_input =
              SetValue(0, DoubleSpinMax, OrZero(inst.storm_control_unknown_unicast_min)),
          !.unknown_unicast_max_input =
              SetValue(0, DoubleSpinMax, OrZero(inst.storm_control_unknown_unicast_max)),
          !.speed_combo = SetCurrentText(items.speed_combo, @, inst.speed),
          !.duplex_combo = SetCurrentText(items.duplex_combo, @, inst.duplex),
          !.auto_mdix_checkbox = inst.auto_mdix,
          !.errdisable_timeout_input =
              SetValue(0, 600, OrZero(inst.errdisable_timeout)),
          !.channel_group_input = SetValue(0, 128, OrZero(inst.channel_group)),
          !.channel_mode_combo =
              SetCurrentText(items.channel_mode_combo, @,
                             IF inst.channel_group_mode = None
                                \/ EnumText(inst.channel_group_mode[1]) = ""
                             THEN "--" ELSE EnumText(inst.channel_group_mode[1])) ]

\* SwitchTemplateForm.populate_vlan_table(vlan_list): a row per VLAN ID
\* with the ID and the name VLAN<id> (the third cell, the state, is not
\* read back)
populate_vlan_table(ids) ==
    [k \in DOMAIN ids |-> <<Str(ids[k]), "VLAN" \o Str(ids[k])>>]

\* the items of the manager VLAN combo box after load_from_instance
ManagerVlanItems(ids) == {Str(ids[k]) : k \in DOMAIN ids}

\* the text of the first of the VLAN IDs, the item a refilled combo box
\* shows; the empty text when there is none
FirstItem(ids) == IF ids = <<>> THEN "" ELSE Str(ids[1])

\* SwitchTemplateForm().load_from_instance(instance): the VTP widgets are
\* not loaded
SwitchForm_load_from_instance(instance) ==
    LET w == SwitchTemplateForm_widgets
        ids == Switch_vlan_list(instance)
    IN  [ w EXCEPT
          !.hostname_input = instance.hostname,
          !.spanning_tree_mode_combo =
              SetCurrentText({"pvst", "rapid-pvst", "mst"}, @,
                             EnumText(instance.spanning_tree_mode)),
          !.vlan_table = populate_vlan_table(ids),
          !.manager_vlan_id_combo =
              SetCurrentText(ManagerVlanItems(ids), FirstItem(ids),
                             Str(instance.manager_vlan_id)),
          !.manager_ip_input = instance.manager_ip,
          !.default_gateway_input = instance.default_gateway ]

(***************************************************************************)
(* The configuration page of an L2 switch: ConfigMainArea with its sidebar, *)
(* its template cache, its InterfaceAssignmentManager and the form on       *)
(* screen.  A handler is an operator from the page before to the page       *)
(* after; a handler that raises leaves what it did before the exception.    *)
(***************************************************************************)
\* NewTemplateArea: the selector and the form inside the creator
Creator(selected, widgets) == [template_selector |-> selected, current_form |-> widgets]

\* NewTemplateArea._load_template_form(template_type): a new form
NewTemplateArea_load_template_form(template_type) ==
    IF template_type = "Access"
    THEN Creator("Access", AccessTemplateForm_widgets)
    ELSE Creator(template_type, TrunkTemplateForm_widgets)

\* the class of the form inside the creator
CreatorFormClass(creator) ==
    IF creator.template_selector = "Access" THEN "AccessTemplateForm"
    ELSE "TrunkTemplateForm"

\* nothing was applied yet
NotApplied == [class |-> "", inst |-> <<>>, nested |-> <<>>, out |-> NotCalled]

\* the handler that ran last and how it ended
Last(op, outcome) == [op |-> op, outcome |-> outcome]

\* SwitchL3TemplateForm().load_from_instance(instance): the override loads
\* the L3 widgets only
SwitchL3Form_load_from_instance(instance) ==
    [ SwitchL3TemplateForm_widgets EXCEPT
      !.routing_enabled_checkbox = instance.ip_routing,
      !.ipv6_routing_checkbox = instance.ipv6_routing,
      !.svi_table = [k \in DOMAIN instance.svi_interfaces |->
                        << instance.svi_interfaces[k].vlan_id,
                           instance.svi_interfaces[k].ip_address,
                           instance.svi_interfaces[k].subnet_mask,
                           OrEmpty(instance.svi_interfaces[k].description) >>] ]

\* form_cls().load_from_instance(instance), by the class of the form
Form_load_from_instance(class, inst) ==
    CASE class = "SwitchTemplateForm" -> SwitchForm_load_from_instance(inst)
      [] class = "SwitchL3TemplateForm" -> SwitchL3Form_load_from_instance(inst)
      [] class = "AccessTemplateForm" -> AccessForm_load_from_instance(inst)
      [] class = "TrunkTemplateForm" -> TrunkForm_load_from_instance(inst)

\* ConfigMainArea.load_form_by_radio_choice(template_type) on the page of
\* a switch
load_form_by_radio_choice(page, template_type) ==
    LET cache == page.custom_templates
        assigned == get_interfaces_for_template(page.interface_map, template_type)
        typed == [page EXCEPT !.current_template_type = template_type]
        show(c, class, inst) ==
            [typed EXCEPT !.custom_templates = c,
                          !.current_form_class = class,
                          !.current_form = Form_load_from_instance(class, inst)]
    IN  IF template_type = "device"
        THEN show(cache,
                  IF page.switch_layer = "L3"
                     /\ DictGet(cache, "device", <<>>).class = "SwitchL3Template"
                  THEN "SwitchL3TemplateForm" ELSE "SwitchTemplateForm",
                  DictGet(cache, "device", <<>>).inst)
        ELSE IF template_type = "vlan" /\ ~DictHas(cache, "vlan")
        THEN LET inst == AccessTemplate(<< <<"interfaces", assigned>> >>)
             IN  show(DictSet(cache, "vlan", Child("AccessTemplate", inst)),
                      "AccessTemplateForm", inst)
        ELSE IF DictHas(cache, template_type)
        THEN LET old == DictGet(cache, template_type, <<>>)
                 inst == [old.inst EXCEPT !.interfaces = assigned]
             IN  show(DictSet(cache, template_type, Child(old.class, inst)),
                      IF template_type = "vlan" \/ old.class = "AccessTemplate"
                      THEN "AccessTemplateForm" ELSE "TrunkTemplateForm",
                      inst)
        ELSE typed

\* variant of the constructor that caches no default VLAN template
ConfigMainArea_without_vlan(ifaces) ==
    LET map == IAM_init(ifaces, "vlan")
        device == SwitchTemplate(<< <<"hostname", "Switch">> >>)
        vlan == AccessTemplate(<< <<"interfaces", get_interfaces_for_template(map, "vlan")>>,
                                  <<"vlan_id", 1>>,
                                  <<"color", Some("#4287f5")>> >>)
    IN  load_form_by_radio_choice(
            [ custom_templates |-> << <<"device", Child("SwitchTemplate", device)>> >>,
              interface_map |-> map,
              current_template_type |-> "device",
              current_form_class |-> "",
              current_form |-> <<>>,
              applied |-> NotApplied,
              page_last |-> Last("__init__", "done"),
              switch_layer |-> "L2" ],
            "device")

\* ConfigMainArea.__init__(parent, {"device_type": "switch", "interfaces":
\* ifaces}) inside a ConfigPage: the default templates, then the device form
ConfigMainArea(ifaces) ==
    LET map == IAM_init(ifaces, "vlan")
        device == SwitchTemplate(<< <<"hostname", "Switch">> >>)
        vlan == AccessTemplate(<< <<"interfaces", get_interfaces_for_template(map, "vlan")>>,
                                  <<"vlan_id", 1>>,
                                  <<"color", Some("#4287f5")>> >>)
    IN  load_form_by_radio_choice(
            [ custom_templates |-> << <<"device", Child("SwitchTemplate", device)>>,
                                      <<"vlan", Child("AccessTemplate", vlan)>> >>,
              interface_map |-> map,
              current_template_type |-> "device",
              current_form_class |-> "",
              current_form |-> <<>>,
              applied |-> NotApplied,
              page_last |-> Last("__init__", "done"),
              switch_layer |-> "L2" ],
            "device")

\* ConfigMainArea.__init__(parent, {"device_type": "switch", "switch_layer":
\* "L3", "interfaces": ifaces}): the chassis template is a SwitchL3Template
ConfigMainArea_L3(ifaces) ==
    LET map == IAM_init(ifaces, "vlan")
        device == SwitchL3Template(<< <<"hostname", "Switch">> >>)
        vlan == AccessTemplate(<< <<"interfaces", get_interfaces_for_template(map, "vlan")>>,
                                  <<"vlan_id", 1>>,
                                  <<"color", Some("#4287f5")>> >>)
    IN  load_form_by_radio_choice(
            [ custom_templates |-> << <<"device", Child("SwitchL3Template", device)>>,
                                      <<"vlan", Child("AccessTemplate", vlan)>> >>,
              interface_map |-> map,
              current_template_type |-> "device",
              current_form_class |-> "",
              current_form |-> <<>>,
              applied |-> NotApplied,
              page_last |-> Last("__init__", "done"),
              switch_layer |-> "L3" ],
            "device")

\* ConfigMainArea.show_new_template_area()
show_new_template_area(page) ==
    [page EXCEPT !.current_form_class = "NewTemplateArea",
                 !.current_form = NewTemplateArea_load_template_form("Access")]

\* InterfaceHandler._append_to_new_template: the interface joins the
\* Interfaces field of the form inside the creator
append_to_new_template_always(creator, iface) ==
    [creator EXCEPT !.current_form.interfaces_input =
                        Join(",", Append(SplitCsv(@), iface))]

append_to_new_template(creator, iface) ==
    LET tokens == SplitCsv(creator.current_form.interfaces_input)
    IN  IF \E k \in DOMAIN tokens : tokens[k] = iface THEN creator
        ELSE [creator EXCEPT !.current_form.interfaces_input =
                                 Join(",", Append(tokens, iface))]

\* variant of the slot that moves every interface to the template on screen
reassign_interface_every(page, iface) ==
    IF page.current_form_class = "NewTemplateArea"
    THEN [page EXCEPT !.current_form = append_to_new_template(@, iface)]
    ELSE load_form_by_radio_choice(
             [page EXCEPT !.interface_map =
                              [k \in DOMAIN @ |-> <<@[k][1], page.current_template_type>>]],
             page.current_template_type)

\* InterfaceHandler.reassign_interface, the slot of an interface button
reassign_interface(page, iface) ==
    IF page.current_form_class = "NewTemplateArea"
    THEN [page EXCEPT !.current_form = append_to_new_template(@, iface)]
    ELSE IF page.current_template_type = get_template(page.interface_map, iface)
    THEN page
    ELSE load_form_by_radio_choice(
             [page EXCEPT !.interface_map =
                              assign(@, iface, page.current_template_type).map],
             page.current_template_type)

\* isinstance(template, SwitchL2Template): SwitchL3Template is a subclass
IsSwitchL2(class) == class \in {"SwitchTemplate", "SwitchL3Template"}

\* lines 231-236 of _apply_form_changes: the VLAN ID is appended to the
\* list that the vlan_list property builds for this one reading, so the
\* chassis instance stays as it is
Apply_sync_vlan_list(switch, vlan_id) ==
    LET fresh == Switch_vlan_list(switch)
        appended == IF \E k \in DOMAIN fresh : fresh[k] = vlan_id
                    THEN fresh ELSE Append(fresh, vlan_id)
    IN  switch

\* the cached templates of one class other than the device template, in
\* cache order
CachedOfClass(cache, class) ==
    LET kept == SelectSeq(cache, LAMBDA e : e[1] # "device" /\ e[2].class = class)
    IN  [k \in DOMAIN kept |-> kept[k][2]]

\* nested = access_templates + trunk_templates
Apply_nested(cache) ==
    CachedOfClass(cache, "AccessTemplate") \o CachedOfClass(cache, "TrunkTemplate")

\* ConfigMainArea._apply_form_changes, the slot of Apply and of Save
apply_form_changes(page) ==
    LET built == build_template_instance(page.current_form)
    IN  IF built.kind = "raised" THEN [page EXCEPT !.page_last = Last("apply", "raised")]
        ELSE IF built.kind = "none" THEN [page EXCEPT !.page_last = Last("apply", "none")]
        ELSE
        LET synced ==
                IF built.class = "AccessTemplate"
                   /\ DictHas(page.custom_templates, "device")
                   /\ IsSwitchL2(DictGet(page.custom_templates, "device", <<>>).class)
                THEN DictSet(page.custom_templates, "device",
                         Child(DictGet(page.custom_templates, "device", <<>>).class,
                               Apply_sync_vlan_list(
                                   DictGet(page.custom_templates, "device", <<>>).inst,
                                   built.inst.vlan_id)))
                ELSE page.custom_templates
            cache == DictSet(synced, page.current_template_type,
                             Child(built.class, built.inst))
            nested == IF IsSwitchL2(built.class) THEN Apply_nested(cache) ELSE <<>>
            out == IF built.class = "SwitchTemplate"
                   THEN Switch_generate_config(built.inst, nested)
                   ELSE IF built.class = "SwitchL3Template"
                   THEN SwitchL3_generate_config(built.inst, nested)
                   ELSE Child_generate_config(Child(built.class, built.inst))
        IN  [page EXCEPT
                !.custom_templates = cache,
                !.applied = [class |-> built.class, inst |-> built.inst,
                             nested |-> nested, out |-> out],
                !.page_last = Last("apply", IF out.raised THEN "raised" ELSE "done")]

\* variant of the loop that takes the first numbered name without looking
\* whether it is free
unique_name_unchecked(base_name, idx, existing_keys) ==
    IF base_name \in existing_keys THEN base_name \o " (2)" ELSE base_name

\* TemplateManager.generate_template_name(instance, existing_keys)
RECURSIVE unique_name(_, _, _)
unique_name(base_name, idx, existing_keys) ==
    LET name == IF idx = 1 THEN base_name
                ELSE base_name \o " (" \o Str(idx) \o ")"
    IN  IF name \in existing_keys THEN unique_name(base_name, idx + 1, existing_keys)
        ELSE name

generate_template_name(class, inst, existing_keys) ==
    LET vid == IF class = "TrunkTemplate"
               THEN IF inst.native_vlan # 0 THEN inst.native_vlan
                    ELSE IF inst.allowed_vlans # <<>> THEN inst.allowed_vlans[1] ELSE 0
               ELSE inst.vlan_id
        base_name == IF class = "TrunkTemplate"
                     THEN IF vid # 0 THEN "TRUNK " \o Str(vid) ELSE "TRUNK"
                     ELSE IF vid # 0 THEN "VLAN " \o Str(vid) ELSE "Custom template"
    IN  unique_name(base_name, 1, existing_keys)

\* variant of the loop that binds every listed name, catalogued or not
RECURSIVE assign_all_uncatalogued(_, _, _)
assign_all_uncatalogued(m, ifaces, name) ==
    IF ifaces = <<>> THEN m
    ELSE assign_all_uncatalogued(DictSet(m, ifaces[1], name), Tail(ifaces), name)

\* for iface in instance.interfaces: interface_manager.assign(iface, name)
RECURSIVE assign_all(_, _, _)
assign_all(m, ifaces, name) ==
    IF ifaces = <<>> THEN m
    ELSE assign_all(assign(m, ifaces[1], name).map, Tail(ifaces), name)

\* variant of the Accept slot without the VLAN duplication check
on_accept_new_template_unchecked(page) ==
    LET creator == page.current_form
        built == get_full_template_instance(CreatorFormClass(creator), creator.current_form)
    IN  IF built.kind = "raised" THEN [page EXCEPT !.page_last = Last("accept", "raised")]
        ELSE
        LET cache == page.custom_templates
            switch == DictGet(cache, "device", <<>>)
            vlan_id == built.inst.vlan_id
            with_vlan ==
                IF built.class = "AccessTemplate" /\ IsSwitchL2(switch.class)
                THEN DictSet(cache, "device",
                        Child(switch.class,
                              [switch.inst EXCEPT !.vlans =
                                  Append(@, VLAN(vlan_id,
                                      IF built.inst.description = None
                                         \/ built.inst.description[1] = ""
                                      THEN Some("VLAN" \o Str(vlan_id))
                                      ELSE built.inst.description))]))
                ELSE cache
            name == generate_template_name(built.class, built.inst, DictKeys(with_vlan))
            saved == [page EXCEPT
                        !.custom_templates =
                            DictSet(with_vlan, name, Child(built.class, built.inst)),
                        !.interface_map = assign_all(@, built.inst.interfaces, name),
                        !.page_last = Last("accept", "done")]
        IN  load_form_by_radio_choice(load_form_by_radio_choice(saved, name), name)

\* ConfigMainArea._on_accept_new_template, the slot of the creator's Accept
\* button: the sidebar checks the radio button of the new template, which
\* loads its form, and _reload_default_view loads it again
on_accept_new_template(page) ==
    LET creator == page.current_form
        built == get_full_template_instance(CreatorFormClass(creator), creator.current_form)
    IN  IF built.kind = "raised" THEN [page EXCEPT !.page_last = Last("accept", "raised")]
        ELSE
        LET cache == page.custom_templates
            switch == DictGet(cache, "device", <<>>)
            vlan_id == built.inst.vlan_id
            duplicate ==
                /\ built.class = "AccessTemplate"
                /\ IsSwitchL2(switch.class)
                /\ \E k \in DOMAIN Switch_vlan_list(switch.inst) :
                      Switch_vlan_list(switch.inst)[k] = vlan_id
            with_vlan ==
                IF built.class = "AccessTemplate" /\ IsSwitchL2(switch.class)
                THEN DictSet(cache, "device",
                        Child(switch.class,
                              [switch.inst EXCEPT !.vlans =
                                  Append(@, VLAN(vlan_id,
                                      IF built.inst.description = None
                                         \/ built.inst.description[1] = ""
                                      THEN Some("VLAN" \o Str(vlan_id))
                                      ELSE built.inst.description))]))
                ELSE cache
            name == generate_template_name(built.class, built.inst, DictKeys(with_vlan))
            saved == [page EXCEPT
                        !.custom_templates =
                            DictSet(with_vlan, name, Child(built.class, built.inst)),
                        !.interface_map = assign_all(@, built.inst.interfaces, name),
                        !.page_last = Last("accept", "done")]
        IN  IF duplicate THEN [page EXCEPT !.page_last = Last("accept", "rejected")]
            ELSE load_form_by_radio_choice(load_form_by_radio_choice(saved, name), name)

\* NewTemplateArea._on_template_type_changed, the slot of the selector
on_template_type_changed(page, template_type) ==
    IF template_type = page.current_form.template_selector THEN page
    ELSE [page EXCEPT !.current_form = NewTemplateArea_load_template_form(template_type)]

\* the user sets widget w of the form on screen, or of the form inside the
\* creator, to the value v
page_set_widget(page, w, v) ==
    IF page.current_form_class = "NewTemplateArea"
    THEN [page EXCEPT !.current_form.current_form =
                          SetWidget(CreatorFormClass(page.current_form), @, w, v)]
    ELSE [page EXCEPT !.current_form = SetWidget(page.current_form_class, @, w, v)]

\* the user retypes one cell of the VLAN table of the device form
page_set_vlan_cell(page, row, col, text) ==
    [page EXCEPT !.current_form.vlan_table[row][col] = text]

(***************************************************************************)
(* The configuration page as a state machine: the user selects radio        *)
(* buttons, opens the creator, changes widgets, clicks interface buttons,   *)
(* and presses Apply, Accept and Cancel                                     *)
(***************************************************************************)
\* the interface list of the device the page was opened for
PageIfaces == <<"Gi0/1", "Gi0/2">>

\* the values the user sets a widget to on the page, by form class
PageWidgetValues ==
    [ AccessTemplateForm |->
        [ vlan_id_input |-> {1, 10, 20},
          description_input |-> {"users"} ],
      TrunkTemplateForm |->
        [ native_vlan_input |-> {99},
          allowed_vlans_input |-> {"10,20"},
          qos_trust_combo |-> {"cos"} ],
      SwitchTemplateForm |->
        [ hostname_input |-> {"SW1"} ],
      SwitchL3TemplateForm |->
        [ hostname_input |-> {"SW1"},
          ipv6_routing_checkbox |-> {TRUE} ] ]

\* the texts the user types into the Interfaces field of the creator: a
\* catalog interface together with one the device does not have
PageTypedInterfaces == {"Gi0/2, Gi0/9"}

\* the texts the user types into a VLAN ID cell of the VLAN table
PageCellTexts == {"1", "x"}

\* the page the variables describe
PageState ==
    [ custom_templates |-> custom_templates,
      interface_map |-> interface_map,
      current_template_type |-> current_template_type,
      current_form_class |-> current_form_class,
      current_form |-> current_form,
      applied |-> applied,
      page_last |-> page_last,
      switch_layer |-> switch_layer ]

\* the page after a handler ran
PageBecomes(page) ==
    /\ custom_templates' = page.custom_templates
    /\ interface_map' = page.interface_map
    /\ current_template_type' = page.current_template_type
    /\ current_form_class' = page.current_form_class
    /\ current_form' = page.current_form
    /\ applied' = page.applied
    /\ page_last' = page.page_last
    /\ switch_layer' = page.switch_layer

\* the class of the form the user's widget changes go to
EditedFormClass ==
    IF current_form_class = "NewTemplateArea" THEN CreatorFormClass(current_form)
    ELSE current_form_class

\* ConfigPage(main window with an L2 switch selected)
PageInit ==
    /\ interfaces = PageIfaces
    /\ default_template = "vlan"
    /\ assigns = <<>>
    /\ iam_last = NoCall
    /\ custom_templates = ConfigMainArea(PageIfaces).custom_templates
    /\ interface_map = ConfigMainArea(PageIfaces).interface_map
    /\ current_template_type = ConfigMainArea(PageIfaces).current_template_type
    /\ current_form_class = ConfigMainArea(PageIfaces).current_form_class
    /\ current_form = ConfigMainArea(PageIfaces).current_form
    /\ applied = ConfigMainArea(PageIfaces).applied
    /\ page_last = ConfigMainArea(PageIfaces).page_last
    /\ switch_layer = ConfigMainArea(PageIfaces).switch_layer
    /\ page_ops = 0
    /\ page_arg = ""
    /\ form_edits = 0
    /\ build = [kind |-> "", class |-> "", inst |-> <<>>]
    /\ built_by = ""

\* the user checks a radio button of the sidebar that is not checked
SelectRadio ==
    /\ page_ops < MaxPageOps
    /\ \E t \in DictKeys(custom_templates) \ {current_template_type} :
          /\ PageBecomes([load_form_by_radio_choice(PageState, t)
                             EXCEPT !.page_last = Last("select", "done")])
          /\ page_arg' = t
    /\ page_ops' = page_ops + 1
    /\ UNCHANGED form_edits
    /\ UNCHANGED page_others

\* the user presses New Template
ShowNewTemplateArea ==
    /\ page_ops < MaxPageOps
    /\ PageBecomes([show_new_template_area(PageState)
                       EXCEPT !.page_last = Last("show", "done")])
    /\ page_arg' = ""
    /\ page_ops' = page_ops + 1
    /\ UNCHANGED form_edits
    /\ UNCHANGED page_others

\* the user picks the other template type in the creator's selector, one more
\* edit of the creator's widgets
ChangeTemplateType ==
    /\ form_edits < MaxPageEdits
    /\ current_form_class = "NewTemplateArea"
    /\ \E t \in {"Access", "Trunk"} \ {current_form.template_selector} :
          /\ PageBecomes([on_template_type_changed(PageState, t)
                             EXCEPT !.page_last = Last("type", "done")])
          /\ page_arg' = t
    /\ form_edits' = form_edits + 1
    /\ UNCHANGED page_ops
    /\ UNCHANGED page_others

\* the user presses Cancel in the creator
CancelNewTemplate ==
    /\ page_ops < MaxPageOps
    /\ current_form_class = "NewTemplateArea"
    /\ PageBecomes([load_form_by_radio_choice(PageState, current_template_type)
                       EXCEPT !.page_last = Last("cancel", "done")])
    /\ page_arg' = ""
    /\ page_ops' = page_ops + 1
    /\ UNCHANGED form_edits
    /\ UNCHANGED page_others

\* the user clicks the button of an interface
ClickInterface ==
    /\ page_ops < MaxPageOps
    /\ \E k \in DOMAIN interfaces :
          /\ PageBecomes([reassign_interface(PageState, interfaces[k])
                             EXCEPT !.page_last = Last("click", "done")])
          /\ page_arg' = interfaces[k]
    /\ page_ops' = page_ops + 1
    /\ UNCHANGED form_edits
    /\ UNCHANGED page_others

\* the user changes a widget of the form on screen
PageSetWidget ==
    /\ form_edits < MaxPageEdits
    /\ EditedFormClass \in DOMAIN PageWidgetValues
    /\ \E w \in DOMAIN PageWidgetValues[EditedFormClass] :
          \E v \in PageWidgetValues[EditedFormClass][w] :
              PageBecomes([page_set_widget(PageState, w, v)
                              EXCEPT !.page_last = Last("edit", "done")])
    /\ page_arg' = ""
    /\ form_edits' = form_edits + 1
    /\ UNCHANGED page_ops
    /\ UNCHANGED page_others

\* the user types into the Interfaces field of the form inside the creator,
\* the only place where the field can be edited
PageTypeInterfaces ==
    /\ form_edits < MaxPageEdits
    /\ current_form_class = "NewTemplateArea"
    /\ \E text \in PageTypedInterfaces :
          PageBecomes([page_set_widget(PageState, "interfaces_input", text)
                          EXCEPT !.page_last = Last("edit", "done")])
    /\ page_arg' = ""
    /\ form_edits' = form_edits + 1
    /\ UNCHANGED page_ops
    /\ UNCHANGED page_others

\* the user retypes the VLAN ID cell of a row of the VLAN table
PageSetVlanCell ==
    /\ form_edits < MaxPageEdits
    /\ current_form_class = "SwitchTemplateForm"
    /\ \E row \in DOMAIN current_form.vlan_table :
          \E text \in PageCellTexts :
              PageBecomes([page_set_vlan_cell(PageState, row, 1, text)
                              EXCEPT !.page_last = Last("edit", "done")])
    /\ page_arg' = ""
    /\ form_edits' = form_edits + 1
    /\ UNCHANGED page_ops
    /\ UNCHANGED page_others

\* the user presses Apply or Save
ApplyFormChanges ==
    /\ page_ops < MaxPageOps
    /\ PageBecomes(apply_form_changes(PageState))
    /\ page_arg' = ""
    /\ page_ops' = page_ops + 1
    /\ UNCHANGED form_edits
    /\ UNCHANGED page_others

\* the user presses Accept in the creator
AcceptNewTemplate ==
    /\ page_ops < MaxPageOps
    /\ current_form_class = "NewTemplateArea"
    /\ PageBecomes(on_accept_new_template(PageState))
    /\ page_arg' = current_form.current_form.interfaces_input
    /\ page_ops' = page_ops + 1
    /\ UNCHANGED form_edits
    /\ UNCHANGED page_others

PageNext ==
    \/ SelectRadio
    \/ ShowNewTemplateArea
    \/ ChangeTemplateType
    \/ CancelNewTemplate
    \/ ClickInterface
    \/ PageSetWidget
    \/ PageTypeInterfaces
    \/ PageSetVlanCell
    \/ ApplyFormChanges
    \/ AcceptNewTemplate

\* ConfigPage(main window with an L3 switch selected)
PageInitL3 ==
    /\ interfaces = PageIfaces
    /\ default_template = "vlan"
    /\ assigns = <<>>
    /\ iam_last = NoCall
    /\ custom_templates = ConfigMainArea_L3(PageIfaces).custom_templates
    /\ interface_map = ConfigMainArea_L3(PageIfaces).interface_map
    /\ current_template_type = ConfigMainArea_L3(PageIfaces).current_template_type
    /\ current_form_class = ConfigMainArea_L3(PageIfaces).current_form_class
    /\ current_form = ConfigMainArea_L3(PageIfaces).current_form
    /\ applied = ConfigMainArea_L3(PageIfaces).applied
    /\ page_last = ConfigMainArea_L3(PageIfaces).page_last
    /\ switch_layer = ConfigMainArea_L3(PageIfaces).switch_layer
    /\ page_ops = 0
    /\ page_arg = ""
    /\ form_edits = 0
    /\ build = [kind |-> "", class |-> "", inst |-> <<>>]
    /\ built_by = ""

InitPage == PageInit /\ TemplateIdle /\ RangeIdle /\ ChassisIdle /\ NameIdle /\ NavIdle

SpecPage == InitPage /\ [][PageNext]_vars

InitPageL3 == PageInitL3 /\ TemplateIdle /\ RangeIdle /\ ChassisIdle /\ NameIdle /\ NavIdle

\* the same handlers on the page of an L3 switch
SpecPageL3 == InitPageL3 /\ [][PageNext]_vars

(***************************************************************************)
(* Naming a new template: generate_template_name on its own, given an       *)
(* instance and the names already taken                                     *)
(***************************************************************************)
\* the instances a name is generated for
NamedInstances ==
    { Child("AccessTemplate", AccessTemplate(<< <<"vlan_id", v>> >>)) : v \in {0, 1, 10} }
    \cup { Child("TrunkTemplate",
                 TrunkTemplate(<< <<"native_vlan", n>>, <<"allowed_vlans", a>> >>)) :
               n \in {0, 99}, a \in {<<>>, <<10, 20>>} }

\* f"{base_name} ({idx})"
Numbered(base_name, idx) == base_name \o " (" \o Str(idx) \o ")"

\* the names that can be taken: another template's, two base names, and
\* their numbered forms
TakenNames ==
    {"device", "Custom template", "VLAN 10", "TRUNK 99"}
    \cup { Numbered(b, k) : b \in {"VLAN 10", "TRUNK 99"}, k \in 2..MaxSuffix }

NameInit ==
    /\ name_instance \in NamedInstances
    /\ name_keys \in SUBSET TakenNames
    /\ template_name = None

\* name = generate_template_name(instance, list(self.custom_templates.keys()))
GenerateTemplateName ==
    /\ template_name = None
    /\ template_name' = Some(generate_template_name(name_instance.class,
                                                    name_instance.inst, name_keys))
    /\ UNCHANGED <<name_instance, name_keys>>
    /\ UNCHANGED <<iam_vars, tmpl_vars, range_vars, chassis_vars, form_vars, page_vars,
                   nav_vars>>

NameNext == GenerateTemplateName

InitNames ==
    NameInit /\ IAMIdle /\ TemplateIdle /\ RangeIdle /\ ChassisIdle /\ FormIdle /\ PageIdle
             /\ NavIdle

SpecNames == InitNames /\ [][NameNext]_vars

(***************************************************************************)
(* StartPage and MainWindow: choosing a device and changing pages           *)
(***************************************************************************)
\* entries of the device catalogue the start page lists, by radio: two
\* models each, with different interface lists
DeviceModels ==
    [router    |-> << [name |-> "R-A", type |-> None, interfaces |-> <<"Gi0/0">>],
                      [name |-> "R-B", type |-> None,
                       interfaces |-> <<"Gi0/0", "Gi0/1">>] >>,
     switch_l2 |-> << [name |-> "S-A", type |-> Some("L2"), interfaces |-> <<"Fa0/1">>],
                      [name |-> "S-B", type |-> Some("L2"),
                       interfaces |-> <<"Fa0/1", "Fa0/2">>] >>,
     switch_l3 |-> << [name |-> "M-A", type |-> Some("L3"), interfaces |-> <<"Gi1/0/1">>],
                      [name |-> "M-B", type |-> Some("L3"),
                       interfaces |-> <<"Gi1/0/1", "Gi1/0/2">>] >>]

\* StartPage._on_next_clicked: dict(self.selected_model) with device_type
\* and, for a switch, switch_layer added
device_info_of(type, model) ==
    [name |-> model.name, type |-> model.type, interfaces |-> model.interfaces,
     device_type  |-> IF type \in {"switch_l2", "switch_l3"} THEN "switch" ELSE type,
     switch_layer |-> IF type \in {"switch_l2", "switch_l3"}
                      THEN Some(IF type = "switch_l2" THEN "L2" ELSE "L3")
                      ELSE None]

\* ConfigPage(main): _init_ui reads main.selected_device and builds the main
\* area from it; ConfigMainArea.__init__ keeps it as _device_info and builds
\* the assignment manager from its interfaces
ConfigPage(selected) ==
    LET info == selected[1]
        dflt == IF info.device_type = "switch" THEN "vlan" ELSE "device"
    IN  [_device_info |-> info,
         interface_manager |->
            [interfaces       |-> info.interfaces,
             default_template |-> dflt,
             interface_map    |-> IAM_init(info.interfaces, dflt)]]

\* MainWindow._get_current_device_type
MainWindow_get_current_device_type(main) ==
    IF main.selected_device = None THEN "unknown"
    ELSE LET d == main.selected_device[1]
         IN  IF d.device_type = "switch"
             THEN d.device_type \o "_"
                  \o (IF d.switch_layer = None THEN "L2" ELSE d.switch_layer[1])
             ELSE d.device_type

\* MainWindow._get_or_create followed by the rest of _switch_to
MainWindow_switch_to(main, page_cls) ==
    LET created == IF main.pages[page_cls] = None
                   THEN [main.pages EXCEPT ![page_cls] =
                            Some(IF page_cls = "ConfigPage"
                                 THEN ConfigPage(main.selected_device)
                                 ELSE "StartPage")]
                   ELSE main.pages
    IN  [main EXCEPT !.pages = created, !.central_widget = page_cls]

\* MainWindow.goto_start
MainWindow_goto_start(main) == MainWindow_switch_to(main, "StartPage")

\* MainWindow.goto_sc
MainWindow_goto_sc(main) ==
    LET current_device_type == MainWindow_get_current_device_type(main)
        dropped ==
            IF main.previous_device_type # Some(current_device_type)
            THEN [main EXCEPT !.pages = [@ EXCEPT !["ConfigPage"] = None],
                              !.previous_device_type = Some(current_device_type)]
            ELSE main
    IN  MainWindow_switch_to(dropped, "ConfigPage")

\* the main window as the handlers see it
MainWindowState ==
    [selected_device |-> selected_device, previous_device_type |-> previous_device_type,
     pages |-> pages, central_widget |-> central_widget]

MainWindowBecomes(main) ==
    /\ selected_device' = main.selected_device
    /\ previous_device_type' = main.previous_device_type
    /\ pages' = main.pages
    /\ central_widget' = main.central_widget

nav_others == <<iam_vars, tmpl_vars, range_vars, chassis_vars, form_vars, page_vars,
                name_vars>>

NavInit == NavIdle

\* StartPage._on_type_changed, run when another device radio gets checked
OnTypeChanged ==
    \E new_type \in DOMAIN DeviceModels :
        /\ central_widget = "StartPage"
        /\ new_type # device_type
        /\ device_type' = new_type
        /\ selected_model' = None
        /\ nav_last' = "_on_type_changed"
        /\ UNCHANGED <<selected_device, previous_device_type, pages, central_widget>>
        /\ UNCHANGED nav_others

\* StartPage._on_model_selected, run when a model button is clicked
OnModelSelected ==
    \E k \in DOMAIN DeviceModels[device_type] :
        /\ central_widget = "StartPage"
        /\ selected_model' = Some(DeviceModels[device_type][k])
        /\ nav_last' = "_on_model_selected"
        /\ UNCHANGED <<device_type, selected_device, previous_device_type, pages,
                       central_widget>>
        /\ UNCHANGED nav_others

\* StartPage._on_next_clicked; the button is enabled only with a model chosen
OnNextClicked ==
    /\ central_widget = "StartPage"
    /\ selected_model # None
    /\ MainWindowBecomes(MainWindow_goto_sc(
           [MainWindowState EXCEPT !.selected_device =
                Some(device_info_of(device_type, selected_model[1]))]))
    /\ nav_last' = "_on_next_clicked"
    /\ UNCHANGED <<device_type, selected_model>>
    /\ UNCHANGED nav_others

\* ConfigMainArea._on_back_clicked
OnBackClicked ==
    /\ central_widget = "ConfigPage"
    /\ MainWindowBecomes(MainWindow_goto_start(MainWindowState))
    /\ nav_last' = "_on_back_clicked"
    /\ UNCHANGED <<device_type, selected_model>>
    /\ UNCHANGED nav_others

NavNext == OnTypeChanged \/ OnModelSelected \/ OnNextClicked \/ OnBackClicked

InitNav ==
    NavInit /\ IAMIdle /\ TemplateIdle /\ RangeIdle /\ ChassisIdle /\ FormIdle /\ PageIdle
            /\ NameIdle

SpecNav == InitNav /\ [][NavNext]_vars

(***************************************************************************)
(* Properties of the form-to-instance builders                              *)
(***************************************************************************)
\* the enum-backed fields build_template_instance reads, by form class:
\* <<widget, value set of the enum, field of the instance>>
EnumBackedFields ==
    [ AccessTemplateForm |->
        { <<"poe_inline_combo", PowerInlineMode, "poe_inline">>,
          <<"violation_action_combo", ViolationAction, "violation_action">>,
          <<"qos_trust_combo", QoSTrustState, "qos_trust">> },
      TrunkTemplateForm |->
        { <<"encapsulation_combo", EncapsulationType, "encapsulation">>,
          <<"dtp_mode_combo", DTPMode, "dtp_mode">>,
          <<"qos_trust_combo", QoSTrustState, "qos_trust">>,
          <<"channel_mode_combo", ChannelMode, "channel_group_mode">> },
      SwitchTemplateForm |->
        { <<"spanning_tree_mode_combo", SpanningTreeMode, "spanning_tree_mode">>,
          <<"vtp_mode_combo", VTPMode, "vtp_mode">> },
      RouterTemplateForm |-> {} ]

\* the enum-backed widgets of the form that show a text outside their enum
InvalidEnumWidgets ==
    {e \in EnumBackedFields[current_form_class] : current_form[e[1]] \notin e[2]}

\* the field holds a member of the enum or None, and no raw string
MemberOrNone(enum, value) ==
    \/ value = None
    \/ \E v \in enum : value = EnumMember(v) \/ value = Some(EnumMember(v))

\* the device form shows a manager VLAN that int() accepts
ManagerVlanParses ==
    current_form_class = "SwitchTemplateForm" => IntParses(current_form.manager_vlan_id_combo)

\* C16: when build_template_instance ran on a form one of whose enum-backed
\* widgets (Access: PoE mode, violation action, QoS trust; Trunk:
\* encapsulation, DTP mode, QoS trust, channel mode; Switch: spanning-tree
\* mode, VTP mode) shows a text outside the enum's value set, it raised no
\* exception and the field of the returned instance holds a member of the
\* enum (the default) or None, never the raw text.
C16_InvalidEnumCoerced ==
    (built_by = "build_template_instance" /\ InvalidEnumWidgets # {}
        /\ ManagerVlanParses) =>
        /\ build.kind = "instance"
        /\ \A e \in InvalidEnumWidgets : MemberOrNone(e[2], build.inst[e[3]])

\* C17: when a builder (build_template_instance, get_full_template_instance)
\* ran on an Access or Trunk form all of whose combo boxes show one of
\* their items, it returned an instance, and every generate_config call on
\* that instance returned a line list without raising.
C17_BuiltInstanceRenders ==
    (built_by # "" /\ Selectable(current_form_class, current_form)) =>
        /\ build.kind = "instance"
        /\ tmpl_renders > 0 => ~tmpl_out.raised

(***************************************************************************)
(* Properties of the configuration page                                     *)
(***************************************************************************)
\* the chassis template in the cache, and the VLAN IDs it knows
Device == DictGet(custom_templates, "device", <<>>)

ChassisVlanList == Switch_vlan_list(Device.inst)

\* the cache entries other than the device template
CachedPortTemplates == SelectSeq(custom_templates, LAMBDA e : e[1] # "device")

\* out_line is child_line with blank characters put before it
IndentedCopy(out_line, child_line) ==
    /\ Len(out_line) > Len(child_line)
    /\ EndsWith(out_line, child_line)
    /\ Strip(SubSeq(out_line, 1, Len(out_line) - Len(child_line))) = ""

\* Apply on the device form went through to the end
DeviceApplied == page_last = Last("apply", "done") /\ applied.class = "SwitchTemplate"

\* C13: when the device form is applied, every cached Access template is
\* passed before every cached Trunk template, and the generated
\* configuration is the device-wide preamble, then the lines of each child
\* in the order given, indented, then the closing end and write memory; a
\* child without interfaces contributes no line.
C13_ChildrenSpliced ==
    DeviceApplied =>
        LET kids == applied.nested
            pre == Switch_preamble(applied.inst)
            lines == Flatten([k \in DOMAIN kids |-> Child_generate_config(kids[k]).cfg])
            cfg == applied.out.cfg
        IN  /\ Len(kids) = Len(CachedPortTemplates)
            /\ \A i, j \in DOMAIN kids :
                  (i < j) => ~(kids[i].class = "TrunkTemplate"
                               /\ kids[j].class = "AccessTemplate")
            /\ \A k \in DOMAIN kids :
                  kids[k].inst.interfaces = <<>> =>
                      Child_generate_config(kids[k]).cfg = <<>>
            /\ Len(cfg) = Len(pre) + Len(lines) + 2
            /\ SubSeq(cfg, 1, Len(pre)) = pre
            /\ \A k \in DOMAIN lines : IndentedCopy(cfg[Len(pre) + k], lines[k])
            /\ SubSeq(cfg, Len(cfg) - 1, Len(cfg)) = <<"end", "write memory">>

\* the same with the lines of the children taken over as they are
C13_ChildrenSplicedVerbatim ==
    DeviceApplied =>
        LET kids == applied.nested
            pre == Switch_preamble(applied.inst)
            lines == Flatten([k \in DOMAIN kids |-> Child_generate_config(kids[k]).cfg])
        IN  /\ Len(kids) = Len(CachedPortTemplates)
            /\ \A i, j \in DOMAIN kids :
                  (i < j) => ~(kids[i].class = "TrunkTemplate"
                               /\ kids[j].class = "AccessTemplate")
            /\ applied.out.cfg = pre \o lines \o <<"end", "write memory">>

\* this step is Apply or Save pressed on an Access form
AccessApplyStep ==
    /\ page_ops' = page_ops + 1
    /\ page_last'.op = "apply"
    /\ current_form_class = "AccessTemplateForm"

\* this step is Accept pressed in the creator with an Access form inside
AccessAcceptStep ==
    /\ page_ops' = page_ops + 1
    /\ page_last'.op = "accept"
    /\ current_form_class = "NewTemplateArea"
    /\ current_form.template_selector = "Access"

\* the VLAN ID on the Access form the handler of this step reads
StepVlanId ==
    IF current_form_class = "NewTemplateArea"
    THEN current_form.current_form.vlan_id_input
    ELSE current_form.vlan_id_input

\* C18: when an Access template with VLAN ID v is applied or accepted and
\* v is not in the chassis template's VLAN list, v is in the list right
\* after the step; these steps remove no VLAN ID from the list.
C18_VlanListSynced ==
    [][ (AccessApplyStep \/ AccessAcceptStep) =>
            /\ StepVlanId \notin Range(ChassisVlanList) =>
                   StepVlanId \in Range(ChassisVlanList')
            /\ Range(ChassisVlanList) \subseteq Range(ChassisVlanList') ]_vars

\* C19: in every reachable state of the page the chassis template's VLAN
\* list holds no VLAN ID twice.
C19_VlanIdsUnique ==
    \A i, j \in DOMAIN ChassisVlanList :
        (i # j) => ChassisVlanList[i] # ChassisVlanList[j]

\* C20: Accept of a new Access template whose VLAN ID is in the chassis
\* template's VLAN list ends as a rejection, not an exception, and leaves
\* the template cache, the interface bindings and the chassis VLAN list as
\* they were.
C20_DuplicateRejected ==
    [][ (AccessAcceptStep /\ StepVlanId \in Range(ChassisVlanList)) =>
            /\ page_last' = Last("accept", "rejected")
            /\ custom_templates' = custom_templates
            /\ interface_map' = interface_map
            /\ ChassisVlanList' = ChassisVlanList ]_vars

\* a duplicate was rejected: the creator is still open on the Access form
\* whose VLAN ID the chassis template knows
C20_Witness ==
    /\ page_last = Last("accept", "rejected")
    /\ current_form_class = "NewTemplateArea"
    /\ current_form.template_selector = "Access"
    /\ current_form.current_form.vlan_id_input \in Range(ChassisVlanList)

\* this step is an Accept that stored the new template
AcceptedStep ==
    /\ page_ops' = page_ops + 1
    /\ page_last' = Last("accept", "done")

\* the names in the Interfaces field of the form inside the creator
CreatorListed == Range(SplitCsv(current_form.current_form.interfaces_input))

\* the cached chassis template with its VLAN list left out
DeviceButVlans(cache) == [DictGet(cache, "device", <<>>) EXCEPT !.inst.vlans = <<>>]

\* C21: an Accept that is not rejected stores the new template under a
\* name that was no cache key before, every older key keeps its template
\* (the chassis template only gains the VLAN), and afterwards every
\* catalog interface listed in the creator is bound to the new name while
\* the other bindings, and the set of bound interfaces, are as before.
C21_AcceptStoresFresh ==
    [][ AcceptedStep =>
          LET name == current_template_type'
          IN  /\ ~DictHas(custom_templates, name)
              /\ DictHas(custom_templates', name)
              /\ \A k \in DictKeys(custom_templates) :
                    /\ DictHas(custom_templates', k)
                    /\ k # "device" =>
                          DictGet(custom_templates', k, <<>>) = DictGet(custom_templates, k, <<>>)
              /\ DeviceButVlans(custom_templates') = DeviceButVlans(custom_templates)
              /\ DictKeys(interface_map') = DictKeys(interface_map)
              /\ \A i \in Range(interfaces) :
                    get_template(interface_map', i) =
                        IF i \in CreatorListed THEN name
                        ELSE get_template(interface_map, i) ]_vars

\* a template was accepted whose Interfaces field named the catalog
\* interface Gi0/2 and Gi0/9, which the device does not have: Gi0/2 is
\* bound to the new name and Gi0/9 is bound to nothing
C21_Witness ==
    /\ page_last = Last("accept", "done")
    /\ "Gi0/2" \in Range(SplitCsv(page_arg))
    /\ "Gi0/9" \in Range(SplitCsv(page_arg))
    /\ DictHas(custom_templates, current_template_type)
    /\ get_template(interface_map, "Gi0/2") = current_template_type
    /\ ~DictHas(interface_map, "Gi0/9")

\* a second trunk template was accepted while "TRUNK 1" was taken
C21_SuffixedName ==
    /\ page_last = Last("accept", "done")
    /\ DictHas(custom_templates, "TRUNK 1")
    /\ current_template_type = "TRUNK 1 (2)"

\* the base name the naming rule gives the instance: TRUNK and the native
\* VLAN, else the first allowed VLAN, for a trunk; VLAN and the VLAN ID
\* otherwise; the bare fallback when that number is 0
NameBase ==
    LET inst == name_instance.inst
    IN  IF name_instance.class = "TrunkTemplate"
        THEN IF inst.native_vlan # 0 THEN "TRUNK " \o Str(inst.native_vlan)
             ELSE IF inst.allowed_vlans # <<>> THEN "TRUNK " \o Str(inst.allowed_vlans[1])
             ELSE "TRUNK"
        ELSE IF inst.vlan_id # 0 THEN "VLAN " \o Str(inst.vlan_id)
             ELSE "Custom template"

\* C22: generate_template_name returns a name that is not among the
\* existing keys: the base name when it is free, otherwise the base name
\* with (k) for the smallest k >= 2 whose name is free.
C22_NameIsFresh ==
    template_name # None =>
        /\ template_name[1] \notin name_keys
        /\ IF NameBase \notin name_keys THEN template_name[1] = NameBase
           ELSE \E k \in 2..(Cardinality(name_keys) + 1) :
                   /\ template_name[1] = Numbered(NameBase, k)
                   /\ \A j \in 2..(k - 1) : Numbered(NameBase, j) \in name_keys

\* a name was generated while the base name and its (2) were taken
C22_Witness ==
    /\ template_name = Some(Numbered(NameBase, 3))
    /\ NameBase \in name_keys
    /\ Numbered(NameBase, 2) \in name_keys

\* this step is a click on an interface button
ClickStep ==
    /\ page_ops' = page_ops + 1
    /\ page_last'.op = "click"

\* C23: a click on interface button i while the form of template T is on
\* screen, not the creator, leaves the mapping as it is when i is bound
\* to T, and otherwise binds i to T and leaves every other binding alone.
C23_ClickRebindsOne ==
    [][ (ClickStep /\ current_form_class # "NewTemplateArea") =>
          LET i == page_arg'
              T == current_template_type
          IN  IF get_template(interface_map, i) = T
              THEN interface_map' = interface_map
              ELSE /\ get_template(interface_map', i) = T
                   /\ DictKeys(interface_map') = DictKeys(interface_map)
                   /\ \A j \in DictKeys(interface_map) \ {i} :
                         get_template(interface_map', j) = get_template(interface_map, j) ]_vars

\* Gi0/1 was clicked with the form of an accepted template on screen: it is
\* bound to that template and Gi0/2 is still bound to another one
C23_Witness ==
    /\ page_last = Last("click", "done")
    /\ page_arg = "Gi0/1"
    /\ current_form_class # "NewTemplateArea"
    /\ current_template_type \notin {"device", "vlan"}
    /\ get_template(interface_map, "Gi0/1") = current_template_type
    /\ get_template(interface_map, "Gi0/2") # current_template_type

\* the names in a sequence are pairwise different
NoRepeats(seq) == \A a, b \in DOMAIN seq : (a # b) => seq[a] # seq[b]

\* C24: a click on an interface button while the creator is on screen
\* changes no binding and no cached template; the clicked name is appended
\* to the Interfaces field of the creator's form when it is not in it and
\* the field stays as it is otherwise, so a list without repeats stays
\* without repeats.
C24_ClickInCreator ==
    [][ (ClickStep /\ current_form_class = "NewTemplateArea") =>
          LET i == page_arg'
              before == SplitCsv(current_form.current_form.interfaces_input)
              after == SplitCsv(current_form'.current_form.interfaces_input)
          IN  /\ interface_map' = interface_map
              /\ custom_templates' = custom_templates
              /\ current_template_type' = current_template_type
              /\ current_form_class' = "NewTemplateArea"
              /\ [current_form' EXCEPT !.current_form.interfaces_input = ""]
                    = [current_form EXCEPT !.current_form.interfaces_input = ""]
              /\ after = IF i \in Range(before) THEN before ELSE Append(before, i)
              /\ NoRepeats(before) => NoRepeats(after) ]_vars

\* Gi0/2 was clicked in the creator after the user had typed it into the
\* Interfaces field: the field lists it once
C24_Witness ==
    /\ page_last = Last("click", "done")
    /\ page_arg = "Gi0/2"
    /\ current_form_class = "NewTemplateArea"
    /\ SplitCsv(current_form.current_form.interfaces_input) = <<"Gi0/2", "Gi0/9">>

\* the header line of an access list
ACLHeader(name) == "ip access-list extended " \o name

\* the positions of the entries of one access list in acl_entries
ACLEntriesOf(entries, name) == {k \in DOMAIN entries : entries[k].name = name}

\* cfg[from + 1 .. from + n] are the lines of the entries at the positions
\* in members, each once, by ascending sequence number
ACLGroupAt(cfg, from, entries, members) ==
    \E order \in [1..Cardinality(members) -> members] :
        /\ \A a, b \in DOMAIN order : (a # b) => order[a] # order[b]
        /\ \A a, b \in DOMAIN order :
              (a < b) => entries[order[a]].sequence <= entries[order[b]].sequence
        /\ \A a \in DOMAIN order : cfg[from + a] = SwitchL3_acl_cmd(entries[order[a]])

\* C25: the rendering of an L3 switch whose ACL entries all have a name
\* has one header per distinct name and no other header, the headers in
\* ascending name order, under each header the entries of that name and
\* only those by ascending sequence number, and then one exit line.
C25_ACLGrouped ==
    (tmpl_class = "SwitchL3Template" /\ tmpl_renders > 0 /\ ~tmpl_out.raised
        /\ \A k \in DOMAIN tmpl.acl_entries : tmpl.acl_entries[k].name # "") =>
        LET cfg == tmpl_out.cfg
            entries == tmpl.acl_entries
            names == {entries[k].name : k \in DOMAIN entries}
            headers == {k \in DOMAIN cfg : StartsWith(cfg[k], ACLHeader(""))}
            at(name) == CHOOSE k \in headers : cfg[k] = ACLHeader(name)
        IN  /\ \A k \in headers : \E name \in names : cfg[k] = ACLHeader(name)
            /\ \A name \in names :
                  Cardinality({k \in headers : cfg[k] = ACLHeader(name)}) = 1
            /\ \A a, b \in names :
                  ACLNameRank(a) < ACLNameRank(b) => at(a) < at(b)
            /\ \A name \in names :
                  LET members == ACLEntriesOf(entries, name)
                      last == at(name) + Cardinality(members)
                  IN  /\ ACLGroupAt(cfg, at(name), entries, members)
                      /\ cfg[last + 1] = " exit"
                      /\ cfg[last + 2] # " exit"
                      /\ \A b \in names :
                            ACLNameRank(b) = ACLNameRank(name) + 1 => at(b) = last + 2

\* an L3 switch was rendered whose entries came out of order: a WEB entry
\* first, an MGMT entry after it, and a second WEB entry with a lower
\* sequence number than the first
C25_Witness ==
    /\ tmpl_class = "SwitchL3Template"
    /\ tmpl_renders > 0
    /\ ~tmpl_out.raised
    /\ Len(tmpl.acl_entries) = 3
    /\ tmpl.acl_entries[1].name = "WEB" /\ tmpl.acl_entries[1].sequence = 20
    /\ tmpl.acl_entries[2].name = "MGMT"
    /\ tmpl.acl_entries[3].name = "WEB" /\ tmpl.acl_entries[3].sequence = 10
    /\ \E k \in DOMAIN tmpl_out.cfg : tmpl_out.cfg[k] = ACLHeader("WEB")

\* the interface names of a cached template
ListedBy(entry) == Range(entry[2].inst.interfaces)

\* C26: when the device form is applied, no interface is listed by two of
\* the child templates handed to the renderer, and every cached Access or
\* Trunk template lists only interfaces the InterfaceAssignmentManager
\* binds to its name.
C26_ChildRangesDisjoint ==
    DeviceApplied =>
        /\ \A a, b \in DOMAIN applied.nested :
              (a # b) => Range(applied.nested[a].inst.interfaces)
                            \cap Range(applied.nested[b].inst.interfaces) = {}
        /\ \A k \in DOMAIN CachedPortTemplates :
              \A i \in ListedBy(CachedPortTemplates[k]) :
                  get_template(interface_map, i) = CachedPortTemplates[k][1]

\* C27: in every state of the page of a switch every catalog interface is
\* bound to a cached Access or Trunk template, never to the chassis
\* template "device".
C27_BoundToPortTemplate ==
    \A i \in Range(interfaces) :
        /\ get_template(interface_map, i) # "device"
        /\ \E k \in DOMAIN CachedPortTemplates :
              /\ CachedPortTemplates[k][1] = get_template(interface_map, i)
              /\ CachedPortTemplates[k][2].class \in {"AccessTemplate", "TrunkTemplate"}

\* every interface is bound to a name that is a key of the template cache
BoundAreCached ==
    \A i \in DictKeys(interface_map) :
        DictHas(custom_templates, get_template(interface_map, i))

\* C28: in every state of the page each interface is bound to a template
\* name that is a key of the template cache, and no step removes a key
\* from the cache.
C28_BoundTemplatesCached ==
    [][ /\ BoundAreCached
        /\ BoundAreCached'
        /\ DictKeys(custom_templates) \subseteq DictKeys(custom_templates') ]_vars

\* Gi0/2 is bound to a template that Accept added to the cache, while the
\* default templates are still cached
C28_Witness ==
    /\ page_last = Last("accept", "done")
    /\ get_template(interface_map, "Gi0/2") \notin {"device", "vlan"}
    /\ DictHas(custom_templates, get_template(interface_map, "Gi0/2"))
    /\ DictHas(custom_templates, "vlan")
    /\ DictHas(custom_templates, "device")

\* C29: on the page of an L3 switch the cached chassis template is a
\* SwitchL3Template in every state, and after Apply on the device form it
\* carries the routing flags the form shows.
C29_DeviceStaysL3 ==
    switch_layer = "L3" =>
        /\ Device.class = "SwitchL3Template"
        /\ (page_last = Last("apply", "done") /\ current_template_type = "device") =>
               /\ Device.inst.ip_routing = current_form.routing_enabled_checkbox
               /\ Device.inst.ipv6_routing = current_form.ipv6_routing_checkbox

(***************************************************************************)
(* Properties of the navigation between the pages                           *)
(***************************************************************************)
\* C30: whenever the configuration page is on screen, it was built from the
\* currently selected device: the device information of its main area and
\* the interface list and map of its assignment manager are those of
\* selected_device.
C30_PageOfSelectedDevice ==
    central_widget = "ConfigPage" =>
        /\ pages["ConfigPage"] # None
        /\ selected_device # None
        /\ pages["ConfigPage"] = Some(ConfigPage(selected_device))

====
